---- MODULE Spec2Model ----
(***************************************************************************)
(* Model of the per-profile workload engine of platformTestTool            *)
(* (src/main.py, run_user_soak): the thread planner, the category queue    *)
(* pool with its fill and replenish logic, the worker loop in its three    *)
(* modes, process_query with the retry loop, and the metric record that    *)
(* PerformanceMetrics.record_query_metrics stores.                         *)
(*                                                                         *)
(* Conventions.  A Python dict is a function whose DOMAIN is the set of    *)
(* keys present, so d.get(k, default) is Get(d, k, default).  Python None  *)
(* is NoNum for a numeric field and None for a text or boolean field;      *)
(* booleans of a result are the strings "True" and "False".  Durations     *)
(* are in tenths of a second (12 is 1.2 s).  Ratios are quarters           *)
(* (2 is 0.5), for which Python's float products are exact.  Category      *)
(* keys "read_simple", "write_insert_simple" are the tuples of their       *)
(* "_"-separated parts; operation and complexity names hold no "_".        *)
(***************************************************************************)
EXTENDS Integers, Sequences, FiniteSets, TLC

\* ---------------------------------------------------------------- bounds
MaxThreads == 2
MaxQueueSize == 2
MaxItems == 2
MaxRuns == 2
MaxRetries == 3
NumTokens == 2
MaxDuration == 1
MaxProfiles == 2
MaxBatch == 3
MaxFound == 2
MaxConnections == 12

\* ------------------------------------------------------- Python values
None == "None"
NoNum == 0 - 1

Get(d, k, default) == IF k \in DOMAIN d THEN d[k] ELSE default

\* dict.update: keys of s overwrite or extend d
Update(d, s) ==
    [k \in (DOMAIN d) \cup (DOMAIN s) |-> IF k \in DOMAIN s THEN s[k] ELSE d[k]]

\* truthiness of a numeric value that may be None
TruthyNum(x) == x # NoNum /\ x # 0

\* str.lower on the error texts of the model
Lower(s) == IF s \in {"killed", "Killed", "KILLED"} THEN "killed" ELSE s

RatioDen == 4

VARIABLES
    \* configuration of the profile, fixed for the run, and the futures of
    \* the other profiles of the run, which no step of this profile touches
    db_type, test_config, retry_cfg, max_queue_size, total_threads,
    thread_ratios, query_files, env, futures,
    \* state of one QueryExecutor.execute_batch call, which run_user_soak
    \* never makes
    batch,
    \* state of one QueueManager and its load_queries call, and the result
    \* of one assign_threads call of a strategy; run_user_soak uses neither
    qm, assigned,
    \* state of run_user_soak
    job_id, thread_assignments, queue_keys, queue_map, metrics, launched,
    \* state of each thread_runner (index 0 of pc and rep is the main thread)
    pc, rep, local_count, run_counter, elapsed,
    query, result, total_duration, attempt, test_case_id,
    \* history: the durations the adapter returned for the current item, the
    \* tokens drawn so far for test-case ids, and the draw each worker holds
    hist, draws, drawn

cfgvars == <<db_type, test_config, retry_cfg, max_queue_size, total_threads,
             thread_ratios, query_files, env, futures, batch, qm,
             assigned>>
runvars == <<job_id, thread_assignments, queue_keys, queue_map, metrics,
             launched>>
wvars == <<pc, rep, local_count, run_counter, elapsed,
           query, result, total_duration, attempt, test_case_id>>
histvars == <<hist, draws, drawn>>
vars == <<cfgvars, runvars, wvars, histvars>>

\* ------------------------------------------------------------- planner
\* A ratio map is an ordered dict: a sequence of <<key, ratio>> pairs.
\* a share rounded up instead of down
ScaleUp(n, r) == (n * r + RatioDen - 1) \div RatioDen

\* int(n * ratio) for a ratio of r quarters
Scale(n, r) == (n * r) \div RatioDen

\* int(n * op_ratio * cx_ratio)
Scale2(n, r1, r2) == (n * r1 * r2) \div (RatioDen * RatioDen)

Repeat(x, n) == [i \in 1..n |-> x]

RECURSIVE ReadAssignments(_, _)
ReadAssignments(read_threads, read_complexity) ==
    IF read_complexity = <<>> THEN <<>>
    ELSE LET e == Head(read_complexity)
         IN  Repeat([type |-> "read", complexity |-> e[1]],
                    Scale(read_threads, e[2]))
             \o ReadAssignments(read_threads, Tail(read_complexity))

RECURSIVE WriteComplexityAssignments(_, _, _)
WriteComplexityAssignments(write_threads, op, write_complexity) ==
    IF write_complexity = <<>> THEN <<>>
    ELSE LET e == Head(write_complexity)
         IN  Repeat([type |-> "write", operation |-> op[1], complexity |-> e[1]],
                    Scale2(write_threads, op[2], e[2]))
             \o WriteComplexityAssignments(write_threads, op, Tail(write_complexity))

RECURSIVE WriteAssignments(_, _, _)
WriteAssignments(write_threads, write_ops, write_complexity) ==
    IF write_ops = <<>> THEN <<>>
    ELSE WriteComplexityAssignments(write_threads, Head(write_ops), write_complexity)
         \o WriteAssignments(write_threads, Tail(write_ops), write_complexity)

\* the list before the fallback (main.py 186-197)
ComputedAssignments(total, ratios) ==
    LET read_threads == Scale(total, ratios.read)
        write_threads == total - read_threads
    IN  ReadAssignments(read_threads, ratios.read_complexity)
        \o WriteAssignments(write_threads, ratios.write_operations,
                            ratios.write_complexity)

FallbackAssignments(total) ==
    Repeat([type |-> "read", complexity |-> "simple"], total)

\* a planner that falls back whenever flooring under-allocates
ThreadAssignmentsPadded(total, ratios) ==
    LET computed == ComputedAssignments(total, ratios)
    IN  IF Len(computed) < total THEN FallbackAssignments(total) ELSE computed

\* "if not thread_assignments" (main.py 199-200)
ThreadAssignments(total, ratios) ==
    LET computed == ComputedAssignments(total, ratios)
    IN  IF computed = <<>> THEN FallbackAssignments(total) ELSE computed

\* ---------------------------------------------------------- queue keys
KeyOf(thread_info) ==
    IF thread_info.type = "read"
    THEN <<"read", thread_info.complexity>>
    ELSE <<"write", thread_info.operation, thread_info.complexity>>

\* the keys of queue_map in insertion order (main.py 205-212)
RECURSIVE QueueKeys(_, _)
QueueKeys(assignments, seen) ==
    IF assignments = <<>> THEN seen
    ELSE LET key == KeyOf(Head(assignments))
         IN  QueueKeys(Tail(assignments),
                       IF \E i \in 1..Len(seen) : seen[i] = key
                       THEN seen ELSE Append(seen, key))

\* ------------------------------------------------------------ provider
IsMongo == db_type = "mongodb"
NonRelational == db_type \in {"mongodb", "redis"}

\* type, operation and complexity a key parses to (key.split('_', n))
KeyComplexity(key) == IF key[1] = "read" THEN key[2] ELSE key[3]
KeyOperation(key) == IF key[1] = "read" THEN "select" ELSE key[2]

\* the action tag a well-formed document-store file of a folder carries
FolderAction(key) ==
    IF key[1] = "read" THEN "find"
    ELSE IF key[2] = "insert" THEN "insert_one"
    ELSE IF key[2] = "update" THEN "update_many"
    ELSE IF key[2] = "delete" THEN "delete_many"
    ELSE key[2]

\* operation_rep of a document-store payload (main.py 260-269)
OperationRep(action, key) ==
    IF action = "find" THEN "select"
    ELSE IF action \in {"insert_one", "insert_many"} THEN "insert"
    ELSE IF action \in {"update_one", "update_many"} THEN "update"
    ELSE IF action \in {"delete_one", "delete_many"} THEN "delete"
    ELSE IF action # "" THEN action
    ELSE IF key[1] = "read" THEN "select" ELSE "unknown"

\* payload.get('action') and payload.get('collection') of a document-store
\* file (main.py 257-258): a file may carry the tag of its folder, no tag, a
\* tag the dispatch does not know, or no collection
PayloadAction(key) ==
    LET kind == Get(env, "payload", "tagged")
    IN  IF kind = "untagged" THEN ""
        ELSE IF kind = "unknown" THEN "aggregate"
        ELSE FolderAction(key)

PayloadCollection ==
    IF Get(env, "payload", "tagged") = "nocollection" THEN "" ELSE "coll"

\* the work item built from the i-th usable file of a category folder
FileItem(key, i) ==
    IF IsMongo
    THEN [file_name |-> "q" \o ToString(i) \o ".json",
          operation |-> OperationRep(PayloadAction(key), key),
          complexity |-> KeyComplexity(key),
          action |-> IF PayloadAction(key) # "" THEN PayloadAction(key)
                     ELSE IF key[1] = "read" THEN "find" ELSE "",
          collection |-> PayloadCollection]
    ELSE [query |-> "sql" \o ToString(i),
          file_name |-> "q" \o ToString(i) \o ".sql",
          operation |-> KeyOperation(key),
          complexity |-> KeyComplexity(key)]

\* the fallback of get_queries_for_queue (main.py 327-391)
DefaultQueries(key) ==
    IF key[1] = "read"
    THEN IF IsMongo
         THEN << [file_name |-> "default.json", operation |-> "select",
                  complexity |-> KeyComplexity(key), action |-> "find",
                  collection |-> "test"] >>
         ELSE << [query |-> "SELECT current_date", file_name |-> "default.sql",
                  operation |-> "select", complexity |-> KeyComplexity(key)] >>
    ELSE IF IsMongo
         THEN IF key[2] = "insert"
              THEN << [file_name |-> "default.json", operation |-> "insert",
                       complexity |-> key[3], action |-> "insert_one",
                       collection |-> "test"] >>
              ELSE IF key[2] = "update"
              THEN << [file_name |-> "default.json", operation |-> "update",
                       complexity |-> key[3], action |-> "update_many",
                       collection |-> "test"] >>
              ELSE IF key[2] = "delete"
              THEN << [file_name |-> "default.json", operation |-> "delete",
                       complexity |-> key[3], action |-> "delete_many",
                       collection |-> "test"] >>
              ELSE <<>>
         ELSE << [query |-> "SELECT version()", file_name |-> "default.sql",
                  operation |-> key[2], complexity |-> key[3]] >>

\* get_queries_for_queue: the items of the category's files, or the fallback
GetQueriesForQueue(key) ==
    LET queries == [i \in 1..Get(query_files, key, 0) |-> FileItem(key, i)]
    IN  IF queries = <<>> THEN DefaultQueries(key) ELSE queries

\* a full() that answers yes for any queue that holds an item
FullWhenNonEmpty(q) == Len(q) >= 1

\* queue.Queue.full() and put_nowait() of a queue created with maxsize > 0
Full(q) == Len(q) >= max_queue_size

\* ------------------------------------------------------------- adapter
\* SQLAlchemyExecutor.execute: the statement ran (sqlalchemy_executor.py 53-55)
SqlOk(d) ==
    [start_time |-> 1, end_time |-> 1 + d, duration |-> d, success |-> "True",
     rows_affected |-> 1, rows_processed |-> 1, error |-> None,
     error_code |-> None, memory_usage |-> 0, cpu_time |-> 0]

\* SQLAlchemyExecutor.execute: the statement raised (sqlalchemy_executor.py 57-61)
SqlFail(d, e) ==
    [start_time |-> 1, end_time |-> 1 + d, duration |-> d, success |-> "False",
     rows_affected |-> 0, rows_processed |-> 0, error |-> e,
     error_code |-> "Exception", memory_usage |-> 0, cpu_time |-> 0]

\* the document-store branch of process_query ran its action (main.py 498-510)
MongoOk(d) ==
    [success |-> "True", error |-> None, start_time |-> 1, end_time |-> 1 + d,
     duration |-> d, rows_affected |-> 1, rows_processed |-> 1,
     error_code |-> None, memory_usage |-> 0, cpu_time |-> 0]

\* an exception of the non-relational branch, captured (main.py 525-526)
NonRelFail(e) == [success |-> "False", error |-> e]

MongoActions ==
    {"find", "insert_one", "insert_many", "update_one", "update_many",
     "delete_one", "delete_many"}

\* whether the backend refuses every call of the run
BackendDown == Get(env, "down", FALSE)

\* an invocation that raised instead of returning
Raised == [raised |-> "True"]

\* executor.execute_batch([query]) of a relational backend: one result, or,
\* for an executor whose execute_batch can raise, the exception
SqlResults ==
    {SqlOk(d) : d \in IF BackendDown THEN {} ELSE env.durations}
    \cup {SqlFail(d, e) : d \in env.durations, e \in env.errors}
    \cup (IF Get(env, "flaky", FALSE) THEN {Raised} ELSE {})

\* the execution dispatch without the except clause of main.py 525-526
ExecResultsUncaught(q) ==
    IF IsMongo
    THEN IF Get(q, "collection", "") = "" \/ Get(q, "action", "") = ""
         THEN {Raised}
         ELSE IF q.action \in MongoActions
         THEN {MongoOk(d) : d \in IF BackendDown THEN {} ELSE env.durations}
              \cup {Raised : e \in env.errors}
         ELSE {Raised}
    ELSE SqlResults

\* the results the execution dispatch of process_query can produce (main.py 446-528)
ExecResults(q) ==
    IF IsMongo
    THEN IF Get(q, "collection", "") = "" \/ Get(q, "action", "") = ""
         THEN {NonRelFail("MongoDB query requires 'collection' and 'action'")}
         ELSE IF q.action \in MongoActions
         THEN {MongoOk(d) : d \in IF BackendDown THEN {} ELSE env.durations}
              \cup {NonRelFail(e) : e \in env.errors}
         ELSE {NonRelFail("Unsupported MongoDB action")}
    ELSE SqlResults

\* executor.execute_batch([query]) inside the retry loop (main.py 558): the
\* executor of a document store is the bare client, which has no such method
RetryResults(q) == IF NonRelational THEN {Raised} ELSE SqlResults

\* ------------------------------------------------------- process_query
\* a prepare_query that always writes the metadata of the assignment
PrepareQueryOverwrite(qobj, thread_info) ==
    Update(qobj,
           [operation |-> IF thread_info.type = "read" THEN "select"
                          ELSE Get(thread_info, "operation", ""),
            complexity |-> Get(thread_info, "complexity", ""),
            file_name |-> "unknown.sql"])

\* prepare_query (main.py 428-439)
PrepareQuery(qobj, thread_info) ==
    LET op == IF Get(qobj, "operation", "") = ""
              THEN [operation |-> IF thread_info.type = "read" THEN "select"
                                  ELSE Get(thread_info, "operation", "")]
              ELSE << >>
        cx == IF Get(qobj, "complexity", "") = ""
              THEN [complexity |-> Get(thread_info, "complexity", "")]
              ELSE << >>
        fn == IF Get(qobj, "file_name", "") = ""
              THEN [file_name |-> "unknown.sql"]
              ELSE << >>
    IN  Update(Update(Update(qobj, op), cx), fn)

\* "Compose duration from available fields" (main.py 541-551)
ComposeDuration(r) ==
    IF Get(r, "total_duration", NoNum) # NoNum THEN r.total_duration
    ELSE IF Get(r, "duration", NoNum) # NoNum THEN r.duration
    ELSE IF Get(r, "start_time", NoNum) # NoNum /\ Get(r, "end_time", NoNum) # NoNum
         THEN r.end_time - r.start_time
    ELSE 0

\* retry_duration of one retry result (main.py 561-566)
RetryDuration(retry) ==
    LET first == IF TruthyNum(Get(retry, "total_duration", NoNum))
                 THEN retry.total_duration
                 ELSE Get(retry, "duration", NoNum)
    IN  IF first = NoNum /\ TruthyNum(Get(retry, "start_time", NoNum))
                         /\ TruthyNum(Get(retry, "end_time", NoNum))
        THEN retry.end_time - retry.start_time
        ELSE first

\* the guards of the retry loop without the skip of non-relational backends
RetryWantedNoSkip(total) ==
    /\ retry_cfg.enabled
    /\ total = 0 \/ total = NoNum

\* the guards of the retry loop (main.py 554-555)
RetryWanted(total) ==
    /\ retry_cfg.enabled
    /\ total = 0 \/ total = NoNum
    /\ ~(retry_cfg.skip_nonrelational /\ NonRelational)

\* a return-code derivation that raises on a failed result
ReturnCodeRaisesOnFailure(r) ==
    [raised |-> Get(r, "success", None) # "True", code |-> 0]

\* return_code_val (main.py 580-587); raised when .lower() meets None
ReturnCode(r) ==
    LET success == Get(r, "success", None)
        error == Get(r, "error", "")
    IN  IF success = "True" THEN [raised |-> FALSE, code |-> 0]
        ELSE IF success = "False" THEN [raised |-> FALSE, code |-> 1]
        ELSE IF error = None THEN [raised |-> TRUE, code |-> NoNum]
        ELSE IF Lower(error) = "killed" THEN [raised |-> FALSE, code |-> 9]
        ELSE [raised |-> FALSE, code |-> IF error # "" THEN 1 ELSE 0]

\* test_type (main.py 116-122) and build_thread_name (main.py 126-134)
TestType ==
    IF test_config.single_run_mode = "per_thread" THEN "soaktest"
    ELSE IF test_config.single_run_mode = "per_query_once" THEN "loadtest"
    ELSE test_config.single_run_mode

BuildThreadName(key) == <<TestType>> \o Tail(key)

\* metric_full (main.py 588-610)
MetricFull(jid, tcid, key, count, q, r, total) ==
    [job_id |-> jid,
     test_case_id |-> tcid,
     query_id |-> [job_id |-> jid, test_case_id |-> tcid,
                   thread_name |-> BuildThreadName(key),
                   local_count |-> count, sub_index |-> 0],
     start_time |-> Get(r, "start_time", NoNum),
     end_time |-> Get(r, "end_time", NoNum),
     duration |-> total,
     total_duration |-> total,
     success |-> Get(r, "success", None),
     error |-> Get(r, "error", None),
     rows_affected |-> Get(r, "rows_affected", 0),
     memory_usage |-> Get(r, "memory_usage", 0),
     cpu_time |-> Get(r, "cpu_time", 0),
     file_name |-> Get(q, "file_name", ""),
     operation |-> Get(q, "operation", ""),
     complexity |-> Get(q, "complexity", ""),
     thread_name |-> BuildThreadName(key),
     return_code |-> ReturnCode(r).code,
     error_code |-> Get(r, "error_code", ""),
     rows_processed |-> Get(r, "rows_affected", 0)]

\* the normalized dict record_query_metrics appends (performance_metrics.py 77-155);
\* a token is falsy when it is the empty string, here 0
RecordQueryMetrics(m) ==
    Update(m,
      [job_id |-> IF m.job_id = 0 THEN m.query_id.job_id ELSE m.job_id,
       test_case_id |-> IF m.test_case_id = 0 THEN m.query_id.test_case_id
                        ELSE m.test_case_id,
       duration |-> IF m.total_duration = NoNum THEN 0 ELSE m.total_duration,
       total_duration |-> IF m.total_duration = NoNum THEN 0 ELSE m.total_duration,
       operation |-> Lower(m.operation),
       complexity |-> Lower(m.complexity),
       success |-> IF m.success = "True" THEN "True" ELSE "False",
       error |-> IF m.error = None THEN "" ELSE m.error,
       error_code |-> IF m.error_code = None THEN "" ELSE m.error_code,
       rows_affected |-> IF m.rows_affected = NoNum THEN 0 ELSE m.rows_affected,
       rows_processed |-> IF m.rows_affected = NoNum THEN 0 ELSE m.rows_affected])

\* ----------------------------------------------------------- the modes
\* execution_time, single_run_flag and single_run_mode (main.py 145-149)
Duration == test_config.execution_time

\* a single-run flag that follows execution_time whatever the configuration says
SingleRunFlagOnZero == Duration = 0

SingleRunFlag ==
    IF "single_run_on_zero_or_missing_duration" \in DOMAIN test_config
    THEN test_config.single_run_on_zero_or_missing_duration
    ELSE Duration = 0

OnceMode ==
    Duration = 0 /\ SingleRunFlag /\ test_config.single_run_mode = "per_query_once"

PerThreadMode ==
    Duration = 0 /\ SingleRunFlag /\ test_config.single_run_mode = "per_thread"

QueriesPerConnection == Get(test_config, "queries_per_connection", 10)

Workers == 1..Len(thread_assignments)
Main == 0
KeyOfWorker(w) == KeyOf(thread_assignments[w])
NoQuery == << >>
NoResult == << >>

\* no execute_batch call has been made
NoBatch ==
    [pc |-> "idle", futures |-> <<>>, call_count |-> 0, order |-> <<>>,
     results |-> <<>>]

\* a QueueManager as __init__ leaves it: no queue yet
NoQueues ==
    [pc |-> "new", k |-> 1, i |-> 1, q |-> <<>>, queues |-> << >>]

\* no assign_threads call has been made
NoAssignment == [pc |-> "idle", assignments |-> << >>]

\* ------------------------------------------------------------- initial
\* The state of run_user_soak once the configuration is read and the job id
\* drawn (main.py 90-158), for a configuration drawn from the given sets.
\* query_files is the number of usable query files in the folder of each
\* category the profile uses.  env is what the run meets outside the engine:
\* the durations a backend call can take, the error texts it can raise, the
\* tokens the random source can produce.
InitOf(dbs, configs, totals, ratios, sizes, files, retries, envs) ==
    /\ db_type \in dbs
    /\ test_config \in configs
    /\ total_threads \in totals
    /\ thread_ratios \in ratios
    /\ max_queue_size \in sizes
    /\ retry_cfg \in retries
    /\ env \in envs
    /\ job_id \in env.tokens
    /\ futures = [i \in 1..Get(env, "siblings", 0) |-> "submitted"]
    /\ batch = NoBatch
    /\ qm = NoQueues
    /\ assigned = NoAssignment
    /\ \E n \in files :
         query_files =
           LET keys == QueueKeys(ComputedAssignments(total_threads, thread_ratios)
                                 \o FallbackAssignments(total_threads), <<>>)
           IN  [k \in {keys[i] : i \in 1..Len(keys)} |-> n]
    /\ thread_assignments = <<>>
    /\ queue_keys = <<>>
    /\ queue_map = << >>
    /\ metrics = <<>>
    /\ launched = 0
    /\ pc = [p \in {Main} |-> "plan"]
    /\ rep = [p \in {Main} |-> [k |-> 1, i |-> 1]]
    /\ local_count = << >>
    /\ run_counter = << >>
    /\ elapsed = << >>
    /\ query = << >>
    /\ result = << >>
    /\ total_duration = << >>
    /\ attempt = << >>
    /\ test_case_id = << >>
    /\ hist = << >>
    /\ draws = <<>>
    /\ drawn = << >>

\* --------------------------------------------------- handler selection
\* the db_type values with a registered handler (db_handler.py 34-112)
Registry == {"postgresql", "mysql", "mssql", "oracle", "mongodb"}

\* a handler lookup whose ValueError leaves run_user_soak
OnNoHandlerRaise == "raised"

\* "except Exception as e: logger.error(...); return" (main.py 166-168)
OnNoHandler == "aborted"

\* get_db_handler(db_type) raises for a type without handler and the
\* profile returns (main.py 163-168; db_handler.py 12-16)
NoHandler ==
    /\ pc[Main] = "plan"
    /\ db_type \notin Registry
    /\ pc' = [pc EXCEPT ![Main] = OnNoHandler]
    /\ UNCHANGED <<cfgvars, runvars, histvars, rep>>
    /\ UNCHANGED <<local_count, run_counter, elapsed, query, result,
                   total_duration, attempt, test_case_id>>

\* ------------------------------------------------------------- planner
\* the handler is found and connected (main.py 163-173), then "Prepare
\* thread assignments" and the creation of one queue per category key
\* (main.py 176-212); the per-thread variables exist from here on
Plan ==
    /\ pc[Main] = "plan"
    /\ db_type \in Registry
    /\ LET assignments == ThreadAssignments(total_threads, thread_ratios)
           keys == QueueKeys(assignments, <<>>)
           threads == 1..Len(assignments)
       IN  /\ thread_assignments' = assignments
           /\ queue_keys' = keys
           /\ queue_map' = [k \in {keys[i] : i \in 1..Len(keys)} |-> <<>>]
           /\ pc' = [p \in {Main} \cup threads |->
                       IF p = Main THEN (IF OnceMode THEN "fill_once" ELSE "rep_full")
                       ELSE "idle"]
           /\ rep' = [p \in {Main} \cup threads |-> [k |-> 1, i |-> 1]]
           /\ local_count' = [w \in threads |-> 0]
           /\ run_counter' = [w \in threads |-> 0]
           /\ elapsed' = [w \in threads |-> 0]
           /\ query' = [w \in threads |-> NoQuery]
           /\ result' = [w \in threads |-> NoResult]
           /\ total_duration' = [w \in threads |-> 0]
           /\ attempt' = [w \in threads |-> 0]
           /\ test_case_id' = [w \in threads |-> 0]
           /\ hist' = [w \in threads |-> <<>>]
           /\ drawn' = [w \in threads |-> 0]
    /\ UNCHANGED <<cfgvars, job_id, metrics, launched, draws>>

\* ------------------------------------------------- fill and replenish
\* put_nowait without the capacity check
PutNowaitUnchecked(q, item) == [full |-> FALSE, q |-> Append(q, item)]

\* q.put_nowait(item) on a queue of maxsize max_queue_size: queue.Full is
\* raised and the queue left alone when it holds maxsize items
PutNowait(q, item) ==
    IF Len(q) >= max_queue_size
    THEN [full |-> TRUE, q |-> q]
    ELSE [full |-> FALSE, q |-> Append(q, item)]

\* a worker that starts replenish_queues again whenever it has finished it
AfterReplenishAgain(p) == IF p = Main THEN "launch" ELSE "rep_full"

\* where a finished replenish_queues returns to: the thread launch for the
\* initial fill, the "continue" of the worker loop otherwise
AfterReplenish(p) == IF p = Main THEN "launch" ELSE "loop"

\* replenish_queues, "for key, q in queue_map.items(): while not q.full()"
\* (main.py 396-397); with no query to put the while loop spins
RepFull(p) ==
    /\ pc[p] = "rep_full"
    /\ IF rep[p].k > Len(queue_keys)
       THEN /\ pc' = [pc EXCEPT ![p] = AfterReplenish(p)]
            /\ rep' = [rep EXCEPT ![p] = [k |-> 1, i |-> 1]]
       ELSE IF Full(queue_map[queue_keys[rep[p].k]])
       THEN /\ rep' = [rep EXCEPT ![p] = [k |-> rep[p].k + 1, i |-> 1]]
            /\ pc' = pc
       ELSE IF GetQueriesForQueue(queue_keys[rep[p].k]) = <<>>
       THEN UNCHANGED <<pc, rep>>
       ELSE /\ rep' = [rep EXCEPT ![p].i = 1]
            /\ pc' = [pc EXCEPT ![p] = "rep_put"]
    /\ UNCHANGED <<cfgvars, runvars, histvars>>
    /\ UNCHANGED <<local_count, run_counter, elapsed, query, result,
                   total_duration, attempt, test_case_id>>

\* replenish_queues, one turn of "for query in get_queries_for_queue(key)"
\* (main.py 398-402)
RepPut(p) ==
    /\ pc[p] = "rep_put"
    /\ LET key == queue_keys[rep[p].k]
           queries == GetQueriesForQueue(key)
           put == PutNowait(queue_map[key], queries[rep[p].i])
       IN  IF put.full
           THEN /\ pc' = [pc EXCEPT ![p] = "rep_full"]
                /\ rep' = [rep EXCEPT ![p].i = 1]
                /\ UNCHANGED queue_map
           ELSE /\ queue_map' = [queue_map EXCEPT ![key] = put.q]
                /\ IF rep[p].i = Len(queries)
                   THEN /\ pc' = [pc EXCEPT ![p] = "rep_full"]
                        /\ rep' = [rep EXCEPT ![p].i = 1]
                   ELSE /\ rep' = [rep EXCEPT ![p].i = @ + 1]
                        /\ pc' = pc
    /\ UNCHANGED <<cfgvars, histvars>>
    /\ UNCHANGED <<job_id, thread_assignments, queue_keys, metrics, launched>>
    /\ UNCHANGED <<local_count, run_counter, elapsed, query, result,
                   total_duration, attempt, test_case_id>>

\* the initial fill of per_query_once mode, one put_nowait (main.py 407-412)
FillOnce ==
    /\ pc[Main] = "fill_once"
    /\ IF rep[Main].k > Len(queue_keys)
       THEN /\ pc' = [pc EXCEPT ![Main] = "launch"]
            /\ rep' = [rep EXCEPT ![Main] = [k |-> 1, i |-> 1]]
            /\ UNCHANGED queue_map
       ELSE LET key == queue_keys[rep[Main].k]
                queries == GetQueriesForQueue(key)
                put == PutNowait(queue_map[key], queries[rep[Main].i])
            IN  IF queries = <<>> \/ put.full
                THEN /\ rep' = [rep EXCEPT ![Main] = [k |-> rep[Main].k + 1, i |-> 1]]
                     /\ UNCHANGED <<pc, queue_map>>
                ELSE /\ queue_map' = [queue_map EXCEPT ![key] = put.q]
                     /\ rep' = [rep EXCEPT ![Main] =
                                  IF rep[Main].i = Len(queries)
                                  THEN [k |-> rep[Main].k + 1, i |-> 1]
                                  ELSE [k |-> rep[Main].k, i |-> rep[Main].i + 1]]
                     /\ pc' = pc
    /\ UNCHANGED <<cfgvars, histvars>>
    /\ UNCHANGED <<job_id, thread_assignments, queue_keys, metrics, launched>>
    /\ UNCHANGED <<local_count, run_counter, elapsed, query, result,
                   total_duration, attempt, test_case_id>>

\* ------------------------------------------------------ run_user_soak
\* "Launch threads": t.start() of the next thread, then the joins (main.py 715-721)
Launch ==
    /\ pc[Main] = "launch"
    /\ IF launched < Len(thread_assignments)
       THEN /\ launched' = launched + 1
            /\ pc' = [pc EXCEPT ![launched + 1] = "start"]
       ELSE /\ pc' = [pc EXCEPT ![Main] = "join"]
            /\ UNCHANGED launched
    /\ UNCHANGED <<cfgvars, histvars, rep>>
    /\ UNCHANGED <<job_id, thread_assignments, queue_keys, queue_map, metrics>>
    /\ UNCHANGED <<local_count, run_counter, elapsed, query, result,
                   total_duration, attempt, test_case_id>>

\* a join loop that waits for the first thread only
JoinFirstOnly ==
    /\ pc[Main] = "join"
    /\ Workers # {} => pc[1] \in {"done", "dead"}
    /\ pc' = [pc EXCEPT ![Main] = "report"]
    /\ UNCHANGED <<cfgvars, runvars, histvars, rep>>
    /\ UNCHANGED <<local_count, run_counter, elapsed, query, result,
                   total_duration, attempt, test_case_id>>

\* every t.join() has returned (main.py 720-721)
Join ==
    /\ pc[Main] = "join"
    /\ \A w \in Workers : pc[w] \in {"done", "dead"}
    /\ pc' = [pc EXCEPT ![Main] = "report"]
    /\ UNCHANGED <<cfgvars, runvars, histvars, rep>>
    /\ UNCHANGED <<local_count, run_counter, elapsed, query, result,
                   total_duration, attempt, test_case_id>>

\* reports written and handler.close() (main.py 723-733)
Report ==
    /\ pc[Main] = "report"
    /\ pc' = [pc EXCEPT ![Main] = "closed"]
    /\ UNCHANGED <<cfgvars, runvars, histvars, rep>>
    /\ UNCHANGED <<local_count, run_counter, elapsed, query, result,
                   total_duration, attempt, test_case_id>>

\* -------------------------------------------------------- thread_runner
\* thread_runner entry: local_count = 0, start_time = time.time() (main.py 418-425)
Start(w) ==
    /\ pc[w] = "start"
    /\ pc' = [pc EXCEPT ![w] = "loop"]
    /\ local_count' = [local_count EXCEPT ![w] = 0]
    /\ elapsed' = [elapsed EXCEPT ![w] = 0]
    /\ UNCHANGED <<cfgvars, runvars, histvars, rep>>
    /\ UNCHANGED <<run_counter, query, result, total_duration, attempt, test_case_id>>

\* time.time() - start_time of a running worker grows by one unit; the
\* worker reads it only in should_continue(), at the head of its loop
Tick(w) ==
    /\ pc[w] = "loop"
    /\ ~OnceMode /\ ~PerThreadMode
    /\ elapsed[w] < Duration
    /\ elapsed' = [elapsed EXCEPT ![w] = @ + 1]
    /\ UNCHANGED <<cfgvars, runvars, histvars, rep, pc>>
    /\ UNCHANGED <<local_count, run_counter, query, result,
                   total_duration, attempt, test_case_id>>

\* a queue.Empty handler of per_query_once that tops the queues up again
OnEmptyOnceReplenish == "rep_full"

\* "except queue.Empty: break", then "return" (main.py 625-629)
OnEmptyOnce == "done"

\* per_query_once: q.get_nowait(), queue.Empty ends the worker (main.py 620-629)
OnceGet(w) ==
    /\ pc[w] = "loop"
    /\ OnceMode
    /\ LET key == KeyOfWorker(w)
       IN  IF queue_map[key] = <<>>
           THEN /\ pc' = [pc EXCEPT ![w] = OnEmptyOnce]
                /\ UNCHANGED <<queue_map, query>>
           ELSE /\ query' = [query EXCEPT ![w] = Head(queue_map[key])]
                /\ queue_map' = [queue_map EXCEPT ![key] = Tail(@)]
                /\ pc' = [pc EXCEPT ![w] = "exec"]
    /\ UNCHANGED <<cfgvars, histvars, rep>>
    /\ UNCHANGED <<job_id, thread_assignments, queue_keys, metrics, launched>>
    /\ UNCHANGED <<local_count, run_counter, elapsed, result,
                   total_duration, attempt, test_case_id>>

\* should_continue() with the comparison off by one
ShouldContinueInclusive(w) ==
    IF PerThreadMode
    THEN run_counter[w] <= QueriesPerConnection
    ELSE elapsed[w] < Duration

\* should_continue() that still holds at the deadline
ShouldContinuePastDeadline(w) ==
    IF PerThreadMode
    THEN run_counter[w] < QueriesPerConnection
    ELSE elapsed[w] <= Duration

\* should_continue() (main.py 632-639)
ShouldContinue(w) ==
    IF PerThreadMode
    THEN run_counter[w] < QueriesPerConnection
    ELSE elapsed[w] < Duration

\* "while should_continue()" is false: the worker returns (main.py 641)
Finish(w) ==
    /\ pc[w] = "loop"
    /\ ~OnceMode
    /\ ~ShouldContinue(w)
    /\ pc' = [pc EXCEPT ![w] = "done"]
    /\ UNCHANGED <<cfgvars, runvars, histvars, rep>>
    /\ UNCHANGED <<local_count, run_counter, elapsed, query, result,
                   total_duration, attempt, test_case_id>>

\* q.get(timeout=1) returns an item (main.py 641-643); a worker of a
\* duration-bound run performs at most MaxRuns iterations in the model
GetItem(w) ==
    /\ pc[w] = "loop"
    /\ ~OnceMode
    /\ ShouldContinue(w)
    /\ PerThreadMode \/ local_count[w] < MaxRuns
    /\ LET key == KeyOfWorker(w)
       IN  /\ queue_map[key] # <<>>
           /\ query' = [query EXCEPT ![w] = Head(queue_map[key])]
           /\ queue_map' = [queue_map EXCEPT ![key] = Tail(@)]
    /\ pc' = [pc EXCEPT ![w] = "exec"]
    /\ UNCHANGED <<cfgvars, histvars, rep>>
    /\ UNCHANGED <<job_id, thread_assignments, queue_keys, metrics, launched>>
    /\ UNCHANGED <<local_count, run_counter, elapsed, result,
                   total_duration, attempt, test_case_id>>

\* q.get(timeout=1) raises queue.Empty after a second on an empty queue:
\* replenish_queues() and continue (main.py 644-648)
GetTimeout(w) ==
    /\ pc[w] = "loop"
    /\ ~OnceMode
    /\ ShouldContinue(w)
    /\ queue_map[KeyOfWorker(w)] = <<>>
    /\ pc' = [pc EXCEPT ![w] = "rep_full"]
    /\ rep' = [rep EXCEPT ![w] = [k |-> 1, i |-> 1]]
    /\ elapsed' = [elapsed EXCEPT ![w] =
                     IF ~PerThreadMode /\ @ < Duration THEN @ + 1 ELSE @]
    /\ UNCHANGED <<cfgvars, runvars, histvars>>
    /\ UNCHANGED <<local_count, run_counter, query, result,
                   total_duration, attempt, test_case_id>>

\* ------------------------------------------- process_query, step by step
\* the duration an invocation returned, as the history keeps it
Returned(r) == IF "raised" \in DOMAIN r THEN NoNum ELSE Get(r, "duration", NoNum)

\* retries handed to the background: the worker is back at its loop at once
AfterExecDetached(total) == IF RetryWanted(total) THEN "loop" ELSE "emit"

\* a retry loop entered whenever retry is enabled, whatever the duration
AfterExecAnyDuration(total) ==
    IF retry_cfg.enabled /\ retry_cfg.retries > 0 THEN "retry" ELSE "emit"

\* where process_query goes after the first result (main.py 553-556)
AfterExec(total) ==
    IF RetryWanted(total) /\ retry_cfg.retries > 0 THEN "retry" ELSE "emit"

\* a test-case id that is not a new draw of the random source
StaleTestCaseId(w) == {[id |-> job_id, draws |-> draws]}

\* test_case_id = ''.join(secrets.choice(...)) inside "for i, result in
\* enumerate(results)" (main.py 530-531): the outcomes of one draw
DrawTestCaseId(w) == {[id |-> t, draws |-> Append(draws, t)] : t \in env.tokens}

\* the units by which time.time() - start_time of a duration-bound worker
\* can grow while its operation runs; past the deadline it is no longer read
ExecTime(w) ==
    IF OnceMode \/ PerThreadMode \/ elapsed[w] >= Duration THEN {0} ELSE {0, 1}

\* an exception in one thread that brings every worker thread down
CrashAll(w) == [p \in DOMAIN pc |-> IF p = Main THEN pc[p] ELSE "dead"]

\* an exception that leaves thread_runner ends that thread and no other
\* (threading.Thread(target=thread_runner), main.py 716-719)
Crash(w) == [pc EXCEPT ![w] = "dead"]

\* prepare_query, the execution dispatch, the fresh test_case_id and the
\* composed duration of the one result (main.py 444-551); an exception the
\* dispatch does not capture leaves process_query before any draw
Exec(w) ==
    /\ pc[w] = "exec"
    /\ \E r \in ExecResults(PrepareQuery(query[w], thread_assignments[w])),
          tc \in DrawTestCaseId(w), dt \in ExecTime(w) :
         /\ elapsed' = [elapsed EXCEPT ![w] = @ + dt]
         /\ query' = [query EXCEPT ![w] = PrepareQuery(@, thread_assignments[w])]
         /\ IF "raised" \in DOMAIN r
            THEN /\ pc' = Crash(w)
                 /\ hist' = [hist EXCEPT ![w] = <<NoNum>>]
                 /\ UNCHANGED <<result, test_case_id, draws, drawn, total_duration>>
            ELSE /\ result' = [result EXCEPT ![w] = r]
                 /\ test_case_id' = [test_case_id EXCEPT ![w] = tc.id]
                 /\ draws' = tc.draws
                 /\ drawn' = [drawn EXCEPT ![w] = Len(tc.draws)]
                 /\ total_duration' = [total_duration EXCEPT ![w] = ComposeDuration(r)]
                 /\ hist' = [hist EXCEPT ![w] = <<Returned(r)>>]
                 /\ pc' = [pc EXCEPT ![w] = AfterExec(ComposeDuration(r))]
    /\ attempt' = [attempt EXCEPT ![w] = 0]
    /\ UNCHANGED <<cfgvars, runvars, rep>>
    /\ UNCHANGED <<local_count, run_counter>>

\* a retry loop that stops at any returned duration, zero included
RetryWinsAnyDuration(retry) ==
    "raised" \notin DOMAIN retry /\ RetryDuration(retry) # NoNum

\* a retry loop that an exception of an attempt ends
RetryEndsOnRaise(retry) ==
    "raised" \in DOMAIN retry \/ TruthyNum(RetryDuration(retry))

\* whether a retry result ends the retry loop (main.py 559-567)
RetryWins(retry) == "raised" \notin DOMAIN retry /\ TruthyNum(RetryDuration(retry))

\* a retry loop that merges the fields of every retry result that returned
RetryMergeAlways(r, retry) ==
    IF "raised" \in DOMAIN retry THEN r ELSE Update(r, retry)

\* result.update(retry) happens only under "if retry_duration" (main.py 567-570)
RetryMerge(r, retry) == IF RetryWins(retry) THEN Update(r, retry) ELSE r

\* one turn of "for attempt in range(retry_count)" (main.py 556-573)
RetryAttempt(w) ==
    /\ pc[w] = "retry"
    /\ attempt[w] < retry_cfg.retries
    /\ \E retry \in RetryResults(query[w]) :
         /\ hist' = [hist EXCEPT ![w] = Append(@, Returned(retry))]
         /\ result' = [result EXCEPT ![w] = RetryMerge(@, retry)]
         /\ IF RetryWins(retry)
            THEN /\ total_duration' = [total_duration EXCEPT ![w] = RetryDuration(retry)]
                 /\ pc' = [pc EXCEPT ![w] = "emit"]
            ELSE /\ UNCHANGED total_duration
                 /\ pc' = [pc EXCEPT ![w] =
                             IF attempt[w] + 1 < retry_cfg.retries
                             THEN "retry" ELSE "emit"]
    /\ attempt' = [attempt EXCEPT ![w] = @ + 1]
    /\ UNCHANGED <<cfgvars, runvars, rep, draws, drawn>>
    /\ UNCHANGED <<local_count, run_counter, elapsed, query, test_case_id>>

\* a record that carries the test-case id in place of the job id
RecordedOwnId(w) ==
    Update(RecordQueryMetrics(
             MetricFull(test_case_id[w], test_case_id[w], KeyOfWorker(w),
                        local_count[w], query[w], result[w], total_duration[w])),
           [hist |-> hist[w], thread |-> w, draw |-> drawn[w], item |-> query[w],
            at |-> elapsed[w]])

\* the record appended to metrics.raw_query_metrics (main.py 575-611); it
\* keeps, as history, the durations the adapter returned for its item, the
\* item itself, the worker that emitted it, the elapsed time at which it
\* did, and the draw its test-case id came from
Recorded(w) ==
    Update(RecordQueryMetrics(
             MetricFull(job_id, test_case_id[w], KeyOfWorker(w), local_count[w],
                        query[w], result[w], total_duration[w])),
           [hist |-> hist[w], thread |-> w, draw |-> drawn[w], item |-> query[w],
            at |-> elapsed[w]])

\* an exception that process_query does not catch, raised while the metric
\* is built (main.py 575-610) or after it was recorded (main.py 612-617)
EmitFaults ==
    IF Get(env, "faults", FALSE) THEN {"none", "build", "log"} ELSE {"none"}

\* an append that writes over the record appended last
AppendMetricOverLast(ms, m) ==
    IF ms = <<>> THEN <<m>> ELSE [ms EXCEPT ![Len(ms)] = m]

\* self.raw_query_metrics.append(norm), one atomic list append
\* (performance_metrics.py 155)
AppendMetric(ms, m) == Append(ms, m)

\* a counter that stays where it is
LocalCountStuck(n) == n

\* local_count += 1 once process_query has returned (main.py 628, 650)
NextLocalCount(n) == n + 1

\* the metric is built and recorded (main.py 575-617), then local_count += 1
\* and, in per_thread mode, run_counter += 1 (main.py 628, 650-654); an
\* exception of the return-code derivation, or any other, ends the thread
Emit(w) ==
    /\ pc[w] = "emit"
    /\ \E f \in EmitFaults :
         IF ReturnCode(result[w]).raised \/ f = "build"
         THEN /\ pc' = Crash(w)
              /\ UNCHANGED <<metrics, local_count, run_counter>>
         ELSE IF f = "log"
         THEN /\ metrics' = AppendMetric(metrics, Recorded(w))
              /\ pc' = Crash(w)
              /\ UNCHANGED <<local_count, run_counter>>
         ELSE /\ metrics' = AppendMetric(metrics, Recorded(w))
              /\ local_count' = [local_count EXCEPT ![w] = NextLocalCount(@)]
              /\ run_counter' = [run_counter EXCEPT ![w] =
                                   IF PerThreadMode THEN @ + 1 ELSE @]
              /\ pc' = [pc EXCEPT ![w] = "loop"]
    /\ query' = [query EXCEPT ![w] = NoQuery]
    /\ result' = [result EXCEPT ![w] = NoResult]
    /\ total_duration' = [total_duration EXCEPT ![w] = 0]
    /\ attempt' = [attempt EXCEPT ![w] = 0]
    /\ test_case_id' = [test_case_id EXCEPT ![w] = 0]
    /\ hist' = [hist EXCEPT ![w] = <<>>]
    /\ drawn' = [drawn EXCEPT ![w] = 0]
    /\ UNCHANGED <<cfgvars, rep, draws, elapsed>>
    /\ UNCHANGED <<job_id, thread_assignments, queue_keys, queue_map, launched>>

\* ------------------------------------------------------- specification
\* thread_ratios in quarters: every worker on read_simple; reads and
\* inserts; only writes of an operation the document store has no default
\* for; all ratio maps empty
AllRead ==
    [read |-> 4, read_complexity |-> <<<<"simple", 4>>>>,
     write_operations |-> <<<<"insert", 4>>>>, write_complexity |-> <<<<"simple", 4>>>>]
ReadWrite ==
    [read |-> 2, read_complexity |-> <<<<"simple", 4>>>>,
     write_operations |-> <<<<"insert", 4>>>>, write_complexity |-> <<<<"simple", 4>>>>]
AllUpsert ==
    [read |-> 0, read_complexity |-> <<<<"simple", 4>>>>,
     write_operations |-> <<<<"upsert", 4>>>>, write_complexity |-> <<<<"simple", 4>>>>]
NoRatios ==
    [read |-> 2, read_complexity |-> <<>>,
     write_operations |-> <<>>, write_complexity |-> <<>>]

\* test_config: per_query_once; per_thread with each queries_per_connection;
\* duration-bound; execution_time 0 with the single-run flag switched off
OnceConfig == [execution_time |-> 0, single_run_mode |-> "per_query_once"]
PerThreadConfigs ==
    { [execution_time |-> 0, single_run_mode |-> "per_thread",
       queries_per_connection |-> n] : n \in 1..MaxRuns }
DurationConfigs ==
    { [execution_time |-> d, single_run_mode |-> "per_thread"] : d \in 1..MaxDuration }
FlagOffConfig ==
    [execution_time |-> 0, single_run_mode |-> "per_thread",
     single_run_on_zero_or_missing_duration |-> FALSE]
AllConfigs == {OnceConfig, FlagOffConfig} \cup PerThreadConfigs \cup DurationConfigs

NoRetry == [enabled |-> FALSE, retries |-> 1, skip_nonrelational |-> TRUE]
RetryConfigs ==
    { [enabled |-> e, retries |-> n, skip_nonrelational |-> s] :
        e \in BOOLEAN, n \in 0..MaxRetries, s \in BOOLEAN }

\* a backend that always answers in 1.2 s, with one token; a backend whose
\* calls take 0, 1.2 or 1.5 s and may fail with either text; a random source
\* of NumTokens tokens
PlainEnv == [durations |-> {12}, errors |-> {}, tokens |-> {1}]
RichEnv == [durations |-> {0, 12, 15}, errors |-> {"timeout", "Killed"}, tokens |-> {1}]
TokenEnv == [durations |-> {12}, errors |-> {}, tokens |-> 1..NumTokens]

\* a single pass of each worker: exactly-once, one run per thread, and an
\* execution_time of 0 with the single-run flag off
\* document-store folders whose files lack the action tag, carry a tag the
\* dispatch does not know, or lack the collection
MalformedEnvs ==
    {[durations |-> {0, 12}, errors |-> {"timeout"}, tokens |-> {1}, payload |-> k] :
        k \in {"untagged", "unknown", "nocollection"}}

\* a backend that refuses every call after 1.2 s
DownEnv ==
    [durations |-> {12}, errors |-> {"connection refused"}, tokens |-> {1},
     down |-> TRUE]

\* a run in which building or logging a metric may raise
FaultEnv == [durations |-> {12}, errors |-> {}, tokens |-> {1}, faults |-> TRUE]

OnePassConfigs ==
    {OnceConfig, FlagOffConfig,
     [execution_time |-> 0, single_run_mode |-> "per_thread", queries_per_connection |-> 1]}

\* The queue pool and the worker loops: up to MaxThreads workers in a single
\* pass on queues of capacity 1; two workers in a single pass, and one worker
\* in every mode, on every capacity and folder size; two workers sharing a
\* queue of capacity 1 over several iterations and in a duration-bound run;
\* a document store with and without a default item; one retry; the run of
\* five iterations of one worker.
Init ==
    \/ InitOf({"postgresql"}, OnePassConfigs, 1..MaxThreads, {AllRead, ReadWrite},
              {1}, 0..MaxItems, {NoRetry}, {PlainEnv})
    \/ InitOf({"postgresql"}, OnePassConfigs, {2}, {AllRead, ReadWrite},
              1..MaxQueueSize, 0..MaxItems, {NoRetry}, {PlainEnv})
    \/ InitOf({"postgresql"}, AllConfigs, {1}, {AllRead, NoRatios},
              1..MaxQueueSize, 0..MaxItems, {NoRetry}, {PlainEnv})
    \/ InitOf({"postgresql"}, PerThreadConfigs, {2}, {AllRead},
              {1}, 1..MaxItems, {NoRetry}, {PlainEnv})
    \/ InitOf({"postgresql"}, {[execution_time |-> 1, single_run_mode |-> "per_thread"]},
              {2}, {AllRead, ReadWrite}, {1}, {1}, {NoRetry}, {PlainEnv})
    \/ InitOf({"mongodb"}, {OnceConfig} \cup PerThreadConfigs, {1}, {AllUpsert, ReadWrite},
              {1}, 0..1, {NoRetry}, {PlainEnv})
    \/ InitOf({"postgresql"}, {OnceConfig}, {1}, {AllRead},
              {1}, {1}, {[enabled |-> TRUE, retries |-> 1, skip_nonrelational |-> TRUE]},
              {[durations |-> {0, 12}, errors |-> {}, tokens |-> {1}]})
    \/ InitOf({"postgresql"},
              {[execution_time |-> 0, single_run_mode |-> "per_thread",
                queries_per_connection |-> 5]},
              {1}, {AllRead}, 1..MaxQueueSize, {1}, {NoRetry}, {PlainEnv})

Next ==
    \/ Plan
    \/ FillOnce
    \/ \E p \in DOMAIN pc : RepFull(p)
    \/ \E p \in DOMAIN pc : RepPut(p)
    \/ Launch
    \/ Join
    \/ Report
    \/ \E w \in Workers : Start(w)
    \/ \E w \in Workers : Tick(w)
    \/ \E w \in Workers : OnceGet(w)
    \/ \E w \in Workers : Finish(w)
    \/ \E w \in Workers : GetItem(w)
    \/ \E w \in Workers : GetTimeout(w)
    \/ \E w \in Workers : Exec(w)
    \/ \E w \in Workers : RetryAttempt(w)
    \/ \E w \in Workers : Emit(w)

Spec == Init /\ [][Next]_vars

\* process_query in detail: one worker of a relational backend and of a
\* document store under every retry configuration and every outcome of the
\* backend; ids drawn from NumTokens tokens by up to MaxThreads workers in a
\* single pass, by one worker in every mode, and by two workers sharing a
\* queue over two iterations each.
InitProcess ==
    \/ InitOf({"postgresql"}, {OnceConfig}, {1}, {AllRead}, {1}, {1}, RetryConfigs, {RichEnv})
    \/ InitOf({"mongodb"}, {OnceConfig}, {1}, {AllRead, ReadWrite}, {1}, 0..1,
              RetryConfigs, {RichEnv})
    \/ InitOf({"postgresql"}, OnePassConfigs, 1..MaxThreads, {AllRead},
              {1}, {1}, {NoRetry}, {TokenEnv})
    \/ InitOf({"postgresql"}, AllConfigs, {1}, {AllRead},
              1..MaxQueueSize, 1..MaxItems, {NoRetry}, {TokenEnv})
    \/ InitOf({"postgresql"},
              {[execution_time |-> 0, single_run_mode |-> "per_thread",
                queries_per_connection |-> 2]},
              {2}, {AllRead}, {1}, {1}, {NoRetry}, {TokenEnv})
    \/ InitOf({"mongodb"},
              {OnceConfig, [execution_time |-> 0, single_run_mode |-> "per_thread",
                            queries_per_connection |-> 1]},
              {1}, {AllRead, ReadWrite}, {1}, {1}, RetryConfigs, MalformedEnvs)
    \/ InitOf({"postgresql"},
              {[execution_time |-> 0, single_run_mode |-> "per_thread",
                queries_per_connection |-> 2]},
              {1}, {AllRead}, {2}, {1},
              {[enabled |-> TRUE, retries |-> 1, skip_nonrelational |-> TRUE]},
              {[durations |-> {0, 12}, errors |-> {}, tokens |-> {1}]})

SpecProcess == InitProcess /\ [][Next]_vars

\* Runs against a backend that refuses every call, scheduled fairly: a thread
\* that can take a step is eventually given one by the interpreter.
InitDown ==
    \/ InitOf({"postgresql"}, {OnceConfig}, {1, 2}, {ReadWrite},
              {1}, 0..MaxItems, {NoRetry}, {DownEnv})
    \/ InitOf({"postgresql"}, PerThreadConfigs, {2}, {AllRead}, {1}, {1},
              {NoRetry}, {DownEnv})
    \/ InitOf({"postgresql"}, DurationConfigs, {1}, {AllRead}, {1}, {1},
              {[enabled |-> TRUE, retries |-> 1, skip_nonrelational |-> TRUE]},
              {[durations |-> {0, 12}, errors |-> {"connection refused"},
                tokens |-> {1}, down |-> TRUE]})
    \/ InitOf({"mongodb"}, {OnceConfig}, {1}, {AllRead}, {1}, 0..1,
              {NoRetry}, {DownEnv})

SpecDown == InitDown /\ [][Next]_vars /\ WF_vars(Next)

\* Runs in which a worker may die of an exception nothing catches, scheduled
\* fairly.
InitFault ==
    \/ InitOf({"postgresql"}, OnePassConfigs, {2}, {AllRead, ReadWrite},
              {1}, 1..MaxItems, {NoRetry}, {FaultEnv})
    \/ InitOf({"postgresql"}, PerThreadConfigs, {2}, {AllRead}, {1}, {1},
              {NoRetry}, {FaultEnv})
    \/ InitOf({"postgresql"}, DurationConfigs, {1}, {AllRead}, {1}, {1},
              {[enabled |-> TRUE, retries |-> 1, skip_nonrelational |-> TRUE]},
              {[durations |-> {0, 12}, errors |-> {}, tokens |-> {1}, faults |-> TRUE]})
    \/ InitOf({"postgresql"}, {OnceConfig}, {1}, {AllRead}, {1}, {1},
              {[enabled |-> TRUE, retries |-> n, skip_nonrelational |-> TRUE] :
                 n \in 2..MaxRetries},
              {[durations |-> {0, 12}, errors |-> {}, tokens |-> {1}, flaky |-> TRUE]})

SpecFault == InitFault /\ [][Next]_vars /\ WF_vars(Next)

\* The whole run of main(): the profile above, with or without a handler for
\* its backend, next to the other profiles submitted to the same pool; each
\* of those is a run_user_soak of its own, seen here from submission to
\* return (main.py 764-767).
SiblingRun(i) ==
    /\ futures[i] = "submitted"
    /\ futures' = [futures EXCEPT ![i] = "running"]
    /\ UNCHANGED <<db_type, test_config, retry_cfg, max_queue_size, total_threads,
                   thread_ratios, query_files, env, batch, qm, assigned>>
    /\ UNCHANGED <<runvars, wvars, histvars>>

SiblingReturn(i) ==
    /\ futures[i] = "running"
    /\ futures' = [futures EXCEPT ![i] = "returned"]
    /\ UNCHANGED <<db_type, test_config, retry_cfg, max_queue_size, total_threads,
                   thread_ratios, query_files, env, batch, qm, assigned>>
    /\ UNCHANGED <<runvars, wvars, histvars>>

RunEnvs ==
    {[durations |-> {0, 12}, errors |-> {}, tokens |-> {1}, siblings |-> n] :
        n \in 0..(MaxProfiles - 1)}

InitRun ==
    \/ InitOf({"redis", "cassandra"}, {OnceConfig} \cup DurationConfigs, {1, 2},
              {AllRead}, {1}, 0..1, {NoRetry}, RunEnvs)
    \/ InitOf({"postgresql"}, {OnceConfig}, {1}, {AllRead}, {1}, {1}, {NoRetry}, RunEnvs)
    \/ InitOf({"postgresql"}, DurationConfigs, {1}, {AllRead}, {1}, {1},
              {[enabled |-> TRUE, retries |-> 1, skip_nonrelational |-> TRUE]},
              RunEnvs)

NextRun ==
    \/ Next
    \/ NoHandler
    \/ \E i \in DOMAIN futures : SiblingRun(i)
    \/ \E i \in DOMAIN futures : SiblingReturn(i)

SpecRun == InitRun /\ [][NextRun]_vars /\ WF_vars(NextRun)

\* The planner on its own: every worker count up to MaxThreads and every
\* ratio map over two keys with ratios 0, 0.5 and 1.
RatioValues == {0, 2, 4}

MapsOver(k1, k2) ==
    {<<>>}
    \cup {<<<<k1, r>>>> : r \in RatioValues}
    \cup {<<<<k2, r>>>> : r \in RatioValues}
    \cup {<<<<k1, r1>>, <<k2, r2>>>> : r1 \in RatioValues, r2 \in RatioValues}

PlannerRatios ==
    [read : RatioValues,
     read_complexity : MapsOver("simple", "complex"),
     write_operations : MapsOver("insert", "update"),
     write_complexity : MapsOver("simple", "complex")]

InitPlanner ==
    InitOf({"postgresql"}, {OnceConfig}, 0..MaxThreads, PlannerRatios,
           {1}, {0}, {NoRetry}, {PlainEnv})

NextPlanner == Plan

SpecPlanner == InitPlanner /\ [][NextPlanner]_vars

\* The initial fill alone, in the modes that fill to capacity: the planner
\* and replenish_queues on the main thread (main.py 176-212, 395-415), for
\* a relational backend and a document store, every worker count, ratio
\* preset, capacity and folder size; the main thread is never suspended for
\* good.
InitFill ==
    InitOf({"postgresql", "mongodb"},
           PerThreadConfigs \cup DurationConfigs \cup {FlagOffConfig},
           1..MaxThreads, {AllRead, ReadWrite, AllUpsert, NoRatios},
           1..MaxQueueSize, 0..MaxItems, {NoRetry}, {PlainEnv})

NextFill == Plan \/ RepFull(Main) \/ RepPut(Main)

SpecFill == InitFill /\ [][NextFill]_vars /\ WF_vars(NextFill)

\* prepare_query alone (main.py 428-439), on an item env.item whose
\* operation, complexity and file_name are each absent, empty or set, for a
\* worker with the assignment env.thread_info
OptField(name, vals) == {<< >>} \cup {[k \in {name} |-> v] : v \in vals}

PrepareEnvs ==
    {[durations |-> {12}, errors |-> {}, tokens |-> {1},
      item |-> Update(Update(Update([query |-> "sql1"], o), c), f),
      thread_info |-> t] :
        o \in OptField("operation", {"", "select", "delete"}),
        c \in OptField("complexity", {"", "simple", "complex"}),
        f \in OptField("file_name", {"", "q1.sql"}),
        t \in {[type |-> "read", complexity |-> "simple"],
               [type |-> "read", complexity |-> "medium"],
               [type |-> "write", operation |-> "insert", complexity |-> "simple"],
               [type |-> "write", operation |-> "update", complexity |-> "medium"],
               [type |-> "write", complexity |-> "medium"]}}

InitPrepare ==
    InitOf({"postgresql"}, {OnceConfig}, {1}, {AllRead}, {1}, {1}, {NoRetry},
           PrepareEnvs)

\* query = prepare_query(query) (main.py 444)
Prepare ==
    /\ "item" \in DOMAIN env
    /\ query = << >>
    /\ query' = [w \in {1} |-> PrepareQuery(env.item, env.thread_info)]
    /\ UNCHANGED <<cfgvars, runvars, histvars>>
    /\ UNCHANGED <<pc, rep, local_count, run_counter, elapsed, result,
                   total_duration, attempt, test_case_id>>

SpecPrepare == InitPrepare /\ [][Prepare]_vars

\* A healthy relational backend under a scheduler that suspends no thread
\* for good: two workers in each single pass, in a run of two iterations
\* each on queues of capacity 1, and in a duration-bound run; one worker
\* with one retry.
InitLive ==
    \/ InitOf({"postgresql"},
              OnePassConfigs \cup {[execution_time |-> 0, single_run_mode |-> "per_thread",
                                    queries_per_connection |-> 2]},
              {2}, {AllRead}, {1}, {1}, {NoRetry}, {PlainEnv})
    \/ InitOf({"postgresql"}, {[execution_time |-> 1, single_run_mode |-> "per_thread"]},
              {2}, {AllRead}, {1}, {1}, {NoRetry}, {PlainEnv})
    \/ InitOf({"postgresql"}, {OnceConfig}, {1}, {AllRead}, {1}, {1},
              {[enabled |-> TRUE, retries |-> 1, skip_nonrelational |-> TRUE]},
              {[durations |-> {0, 12}, errors |-> {}, tokens |-> {1}]})

SpecLive == InitLive /\ [][Next]_vars /\ WF_vars(Next)

\* ------------------------------------------------ QueryExecutor batches
\* One call of QueryExecutor.execute_batch (query_executor.py 67-103) on the
\* batch env.queries, against a backend whose k-th call does
\* env.side_effect[k]; retry_cfg and test_config.single_run_mode are the
\* retry_config and single_run_mode set on the executor
\* (tests/test_retry_behavior.py 11-17, 29, 62, 80).
QueryTexts == {"SELECT 1", "SELECT 2"}

BackendRaise == [raise |-> "DB Error"]
SideEffects == {BackendRaise, [duration |-> 10]}

\* the k-th call of the backend; a script that has run out raises
BackendCall(k) ==
    IF k <= Len(env.side_effect) THEN env.side_effect[k] ELSE BackendRaise

\* the metrics dict of execute_query for one call of the backend
\* (query_executor.py 26-65)
ExecuteQueryMetrics(out) ==
    IF "raise" \in DOMAIN out
    THEN [start_time |-> 1, end_time |-> 1, total_duration |-> 0,
          execution_duration |-> NoNum, success |-> "False",
          error |-> out.raise, result |-> NoNum]
    ELSE [start_time |-> 1, end_time |-> 1 + out.duration,
          total_duration |-> out.duration,
          execution_duration |-> out.duration, success |-> "True",
          error |-> None, result |-> out.duration]

BatchDone(i) == \E j \in 1..Len(batch.order) : batch.order[j] = i

\* execute_batch submits one execute_query per entry (query_executor.py 81-89)
Submit ==
    /\ batch.pc = "idle"
    /\ "queries" \in DOMAIN env
    /\ batch' = [batch EXCEPT !.pc = "submitted",
                               !.futures = [i \in 1..Len(env.queries) |-> << >>]]
    /\ UNCHANGED <<db_type, test_config, retry_cfg, max_queue_size, total_threads,
                   thread_ratios, query_files, env, futures, qm, assigned>>
    /\ UNCHANGED <<runvars, wvars, histvars>>

\* a pool thread runs execute_query for entry i: one call of the backend,
\* whatever it does (query_executor.py 15-65); call and entry record which
\* call of the backend served which entry
ExecuteQuery(i) ==
    /\ batch.pc = "submitted"
    /\ i <= Len(batch.futures)
    /\ ~BatchDone(i)
    /\ LET k == batch.call_count + 1 IN
       batch' = [batch EXCEPT
                   !.call_count = k,
                   !.futures[i] = Update(ExecuteQueryMetrics(BackendCall(k)),
                                         [call |-> k, entry |-> i]),
                   !.order = Append(@, i)]
    /\ UNCHANGED <<db_type, test_config, retry_cfg, max_queue_size, total_threads,
                   thread_ratios, query_files, env, futures, qm, assigned>>
    /\ UNCHANGED <<runvars, wvars, histvars>>

\* the results collected in the order in which the futures completed
BatchResultsAsCompleted(b) == [j \in 1..Len(b.order) |-> b.futures[b.order[j]]]

\* the results collected future by future, in the order of submission
\* (query_executor.py 91-95)
BatchResults(b) == [i \in 1..Len(b.futures) |-> b.futures[i]]

\* execute_batch returns once every future has a result
\* (query_executor.py 91-103); execute_query catches what the backend
\* raises, so no future raises
ExecuteBatch ==
    /\ batch.pc = "submitted"
    /\ \A i \in 1..Len(batch.futures) : BatchDone(i)
    /\ batch' = [batch EXCEPT !.pc = "returned", !.results = BatchResults(batch)]
    /\ UNCHANGED <<db_type, test_config, retry_cfg, max_queue_size, total_threads,
                   thread_ratios, query_files, env, futures, qm, assigned>>
    /\ UNCHANGED <<runvars, wvars, histvars>>

\* batches of 1..MaxBatch entries over two texts, every backend script of
\* MaxBatch calls, both single-run modes, retry off and on with each count
BatchEnvs ==
    {[durations |-> {10}, errors |-> {"DB Error"}, tokens |-> {1},
      queries |-> q, side_effect |-> e] :
        q \in UNION {[1..n -> {[query |-> t] : t \in QueryTexts}] : n \in 1..MaxBatch},
        e \in [1..MaxBatch -> SideEffects]}

InitBatch ==
    InitOf({"postgresql"},
           {OnceConfig,
            [execution_time |-> 0, single_run_mode |-> "per_thread",
             queries_per_connection |-> 1]},
           {1}, {AllRead}, {1}, {1},
           {NoRetry} \cup {[enabled |-> TRUE, retries |-> n, skip_nonrelational |-> TRUE] :
                             n \in 1..MaxRetries},
           BatchEnvs)

NextBatch ==
    \/ Submit
    \/ \E i \in 1..MaxBatch : ExecuteQuery(i)
    \/ ExecuteBatch

SpecBatch == InitBatch /\ [][NextBatch]_vars

\* ---------------------------------------------------------- QueueManager
\* One QueueManager(base, max_queue_size).load_queries() call
\* (queue_manager.py 34-98) on a folder tree where glob finds env.found[k]
\* in the folder of the k-th category.  A file is its path and its content,
\* a content is a sequence of words.
LoadCategories ==
    <<[op_type |-> "read", operation |-> "select", complexity |-> "simple"],
      [op_type |-> "read", operation |-> "select", complexity |-> "medium"],
      [op_type |-> "read", operation |-> "select", complexity |-> "complex"],
      [op_type |-> "write", operation |-> "insert", complexity |-> "simple"],
      [op_type |-> "write", operation |-> "insert", complexity |-> "medium"],
      [op_type |-> "write", operation |-> "insert", complexity |-> "complex"],
      [op_type |-> "write", operation |-> "update", complexity |-> "simple"],
      [op_type |-> "write", operation |-> "update", complexity |-> "medium"],
      [op_type |-> "write", operation |-> "update", complexity |-> "complex"],
      [op_type |-> "write", operation |-> "delete", complexity |-> "simple"],
      [op_type |-> "write", operation |-> "delete", complexity |-> "medium"],
      [op_type |-> "write", operation |-> "delete", complexity |-> "complex"]>>

\* f"{op_type}_{operation}_{complexity}"
LoadKey(c) == <<c.op_type, c.operation, c.complexity>>

\* _read_sql_file: the stripped content, or nothing for an empty or a
\* comment-only file
ReadSqlFile(content) ==
    IF content # <<>> /\ Head(content) # "--" THEN content ELSE <<>>

\* sql[:200]
GistLen == 200
QueryGist(sql) == SubSeq(sql, 1, IF Len(sql) < GistLen THEN Len(sql) ELSE GistLen)

QueueItem(c, file) ==
    LET sql == ReadSqlFile(file.content) IN
    [file_path |-> file.path, file_name |-> file.path, operation |-> c.operation,
     complexity |-> c.complexity, query |-> sql, query_gist |-> QueryGist(sql)]

DefaultItem(c) ==
    LET sql == IF c.op_type = "read" THEN <<"SELECT", "current_date">>
               ELSE <<"SELECT", "version()">> IN
    [file_path |-> "", file_name |-> "default.sql", operation |-> c.operation,
     complexity |-> c.complexity, query |-> sql, query_gist |-> sql]

\* queue.Queue(maxsize).put waits while the queue holds maxsize items; a
\* maxsize of 0 or less is no limit
PutBlocks(q, maxsize) == maxsize > 0 /\ Len(q) >= maxsize

\* load_queries is called
LoadQueries ==
    /\ qm.pc = "new"
    /\ "found" \in DOMAIN env
    /\ qm' = [qm EXCEPT !.pc = "loading"]
    /\ UNCHANGED <<db_type, test_config, retry_cfg, max_queue_size, total_threads,
                   thread_ratios, query_files, env, futures, batch, assigned>>
    /\ UNCHANGED <<runvars, wvars, histvars>>

\* one turn of "for p in files" for category k: the file is read and, when
\* it holds a statement, put on the queue of the category; nobody takes from
\* that queue, so a put that has to wait waits for ever
LoadFile(k) ==
    /\ qm.pc = "loading"
    /\ qm.k = k
    /\ qm.i <= Len(env.found[k])
    /\ LET file == env.found[k][qm.i]
           sql == ReadSqlFile(file.content)
       IN  IF sql # <<>>
           THEN /\ ~PutBlocks(qm.q, max_queue_size)
                /\ qm' = [qm EXCEPT !.q = Append(@, QueueItem(LoadCategories[k], file)),
                                    !.i = @ + 1]
           ELSE qm' = [qm EXCEPT !.i = @ + 1]
    /\ UNCHANGED <<db_type, test_config, retry_cfg, max_queue_size, total_threads,
                   thread_ratios, query_files, env, futures, batch, assigned>>
    /\ UNCHANGED <<runvars, wvars, histvars>>

\* the files of category k are through: the fallback query goes on an empty
\* queue, the queue is stored under its key, and the next category starts
StoreQueue(k) ==
    /\ qm.pc = "loading"
    /\ qm.k = k
    /\ qm.i > Len(env.found[k])
    /\ LET q == IF qm.q = <<>> THEN <<DefaultItem(LoadCategories[k])>> ELSE qm.q
       IN  qm' = [pc |-> IF k = Len(LoadCategories) THEN "loaded" ELSE "loading",
                  k |-> k + 1, i |-> 1, q |-> <<>>,
                  queues |-> Update(qm.queues, [x \in {LoadKey(LoadCategories[k])} |-> q])]
    /\ UNCHANGED <<db_type, test_config, retry_cfg, max_queue_size, total_threads,
                   thread_ratios, query_files, env, futures, batch, assigned>>
    /\ UNCHANGED <<runvars, wvars, histvars>>

\* the files glob can find in one folder, in any order: up to MaxFound
\* files, each a statement, a comment-only file or an empty file
FolderListings ==
    LET contents == {<<"SELECT", "1">>, <<"--", "note">>, <<>>}
    IN  UNION {[1..n -> {[path |-> p, content |-> c] :
                           p \in {"a.sql"}, c \in contents}] : n \in 0..MaxFound}

\* folder trees: one listing for the read folders, one for the write folders
LoadEnvs ==
    {[durations |-> {12}, errors |-> {}, tokens |-> {1},
      found |-> [k \in 1..Len(LoadCategories) |->
                   IF LoadCategories[k].op_type = "read" THEN r ELSE w]] :
        r \in FolderListings, w \in FolderListings}

InitLoad ==
    InitOf({"postgresql"}, {OnceConfig}, {1}, {AllRead}, 1..MaxQueueSize, {1},
           {NoRetry}, LoadEnvs)

NextLoad ==
    \/ LoadQueries
    \/ \E k \in 1..Len(LoadCategories) : LoadFile(k)
    \/ \E k \in 1..Len(LoadCategories) : StoreQueue(k)

\* the loading thread is scheduled as long as it can take a step
SpecLoad == InitLoad /\ [][NextLoad]_vars /\ WF_vars(NextLoad)

\* ------------------------------------------------------ thread strategies
\* One strategy.assign_threads(config) call (thread_strategy.py 21-105) on
\* the configuration env.config.  Thread ids are the numbers n of
\* "thread_n"; read_ratio is in tenths; a dict is a sequence of
\* <<key, value>> pairs in insertion order.
TenthDen == 10
DefaultConnections == 10
DefaultReadRatio == 7

ReadOps == <<"read_select_simple", "read_select_medium", "read_select_complex">>

WriteOps ==
    <<"write_insert_simple", "write_insert_medium", "write_insert_complex",
      "write_update_simple", "write_update_medium", "write_update_complex",
      "write_delete_simple", "write_delete_medium", "write_delete_complex">>

DefaultWeights ==
    <<<<"read_select_simple", 3>>, <<"read_select_medium", 2>>,
      <<"read_select_complex", 1>>, <<"write_insert_simple", 2>>,
      <<"write_update_simple", 1>>, <<"write_delete_simple", 1>>>>

\* max(1, n)
AtLeastOne(n) == IF n < 1 THEN 1 ELSE n

\* "for _ in range(count)" appending thread_id and counting it up, with no
\* look at the number of connections
IdsOf(thread_id, count) == [i \in 1..count |-> thread_id + i - 1]

\* the same loop under "if thread_id < total_threads"
IdsBelow(thread_id, count, total) ==
    LET left == IF thread_id < total THEN total - thread_id ELSE 0
    IN  IdsOf(thread_id, IF count < left THEN count ELSE left)

\* the loop over the read operations: every operation keeps its list
RECURSIVE AssignEach(_, _, _)
AssignEach(ops, count, thread_id) ==
    IF ops = <<>> THEN <<>>
    ELSE <<<<Head(ops), IdsOf(thread_id, count)>>>>
         \o AssignEach(Tail(ops), count, thread_id + count)

\* the loops under the guard: pairs of operation and count; an operation is
\* added only if its list is not empty
RECURSIVE AssignBelow(_, _, _)
AssignBelow(pairs, thread_id, total) ==
    IF pairs = <<>> THEN <<>>
    ELSE LET ids == IdsBelow(thread_id, Head(pairs)[2], total)
             rest == AssignBelow(Tail(pairs), thread_id + Len(ids), total)
         IN  IF ids # <<>> THEN <<<<Head(pairs)[1], ids>>>> \o rest ELSE rest

FixedCountStrategy(config) ==
    LET total == Get(config, "concurrent_connections", DefaultConnections)
        read_ratio == Get(config, "read_ratio", DefaultReadRatio)
        read_threads == (total * read_ratio) \div TenthDen
        write_threads == total - read_threads
        per_read == AtLeastOne(read_threads \div Len(ReadOps))
        per_write == AtLeastOne(write_threads \div Len(WriteOps))
    IN  AssignEach(ReadOps, per_read, 0)
        \o AssignBelow([i \in 1..Len(WriteOps) |-> <<WriteOps[i], per_write>>],
                       Len(ReadOps) * per_read, total)

\* {**d, **s}: the keys of d in their order with the values of s where s
\* has the key, then the keys only s has
MergeDicts(d, s) ==
    LET HasKey(x, k) == \E i \in 1..Len(x) : x[i][1] = k
        ValueOf(x, k) == x[CHOOSE i \in 1..Len(x) : x[i][1] = k][2]
    IN  [i \in 1..Len(d) |-> IF HasKey(s, d[i][1]) THEN <<d[i][1], ValueOf(s, d[i][1])>>
                             ELSE d[i]]
        \o SelectSeq(s, LAMBDA p : ~HasKey(d, p[1]))

RECURSIVE SumValues(_)
SumValues(d) == IF d = <<>> THEN 0 ELSE Head(d)[2] + SumValues(Tail(d))

\* max(1, int((weight / total_weight) * total_threads))
WeightedCount(weight, total_weight, total) ==
    AtLeastOne((weight * total) \div total_weight)

WeightedStrategy(config) ==
    LET total == Get(config, "concurrent_connections", DefaultConnections)
        weights == MergeDicts(DefaultWeights, Get(config, "operation_weights", <<>>))
        total_weight == SumValues(weights)
    IN  AssignBelow([i \in 1..Len(weights) |->
                       <<weights[i][1], WeightedCount(weights[i][2], total_weight, total)>>],
                    0, total)

\* get_strategy(name).assign_threads(config)
GetStrategy(name, config) ==
    IF name = "weighted" THEN WeightedStrategy(config) ELSE FixedCountStrategy(config)

AssignThreads ==
    /\ assigned.pc = "idle"
    /\ "config" \in DOMAIN env
    /\ assigned' = [pc |-> "returned",
                    assignments |-> GetStrategy(env.strategy, env.config)]
    /\ UNCHANGED <<db_type, test_config, retry_cfg, max_queue_size, total_threads,
                   thread_ratios, query_files, env, futures, batch, qm>>
    /\ UNCHANGED <<runvars, wvars, histvars>>

\* configurations: 1..MaxConnections connections, or the default; for the
\* fixed strategy a read ratio from 0 to 1 or the default; for the weighted
\* one the default weights or one weight set by the configuration, of a
\* default operation or of a new one
StrategyEnvs ==
    LET conns == {[concurrent_connections |-> n] : n \in 1..MaxConnections} \cup {<< >>}
        ratios == {[read_ratio |-> r] : r \in {0, 3, 5, 10}} \cup {<< >>}
        weights == {[operation_weights |-> <<<<k, v>>>>] :
                        k \in {"read_select_simple", "write_insert_medium"},
                        v \in {0, 1, 4}} \cup {<< >>}
        configs(name) ==
            {Update(c, x) : c \in conns, x \in IF name = "weighted" THEN weights ELSE ratios}
    IN  UNION {{[durations |-> {12}, errors |-> {}, tokens |-> {1}, strategy |-> name,
                 config |-> c] : c \in configs(name)} : name \in {"fixed", "weighted"}}

InitAssign ==
    InitOf({"postgresql"}, {OnceConfig}, {1}, {AllRead}, {1}, {1}, {NoRetry},
           StrategyEnvs)

SpecAssign == InitAssign /\ [][AssignThreads]_vars

\* --------------------------------------------------------------- claims
\* the records a worker has emitted, and the records of a category
RecordsOf(w) == {i \in 1..Len(metrics) : metrics[i].thread = w}
RecordsOfKey(k) == {i \in 1..Len(metrics) : metrics[i].thread_name = BuildThreadName(k)}

\* C1: at every moment every category queue holds at most max_queue_size
\* items, while workers pop and while workers replenish concurrently.
C1QueueBounded ==
    \A k \in DOMAIN queue_map : Len(queue_map[k]) <= max_queue_size

\* two workers are inside replenish_queues on the same category at once, each
\* about to put, and the queue is already at capacity
C1Witness ==
    \E w1 \in Workers, w2 \in Workers :
        /\ w1 # w2
        /\ pc[w1] = "rep_put" /\ pc[w2] = "rep_put"
        /\ rep[w1].k = rep[w2].k
        /\ Len(queue_map[queue_keys[rep[w1].k]]) = max_queue_size
        /\ Len(metrics) > 0

\* C2: in exactly-once mode on a relational backend, when the run is over a
\* category whose provider returns K distinct items has exactly K records,
\* one for each item: none processed twice, none skipped.
C2ExactlyOnce ==
    (OnceMode /\ ~NonRelational /\ pc[Main] = "closed") =>
        \A k \in DOMAIN queue_map :
            LET items == GetQueriesForQueue(k)
            IN  /\ Cardinality(RecordsOfKey(k)) = Len(items)
                /\ \A n \in 1..Len(items) :
                     Cardinality({i \in RecordsOfKey(k) :
                                    metrics[i].file_name = items[n].file_name}) = 1

\* C3: in fixed-run-count mode a worker has emitted one record per completed
\* iteration, never more than queries_per_connection, and exactly
\* queries_per_connection once it has stopped; timeouts and replenishes do
\* not count.
C3FixedRunCount ==
    PerThreadMode =>
        \A w \in Workers :
            /\ Cardinality(RecordsOf(w)) = run_counter[w]
            /\ run_counter[w] <= QueriesPerConnection
            /\ pc[w] = "done" => run_counter[w] = QueriesPerConnection

\* one worker with queries_per_connection = 5 on a queue of capacity 1, which
\* it found empty and replenished between iterations, has stopped with 5 records
C3Witness ==
    /\ PerThreadMode /\ QueriesPerConnection = 5 /\ max_queue_size = 1
    /\ Len(thread_assignments) = 1
    /\ pc[1] = "done"
    /\ Cardinality(RecordsOf(1)) = 5

\* the records whose first result had a zero duration on a relational
\* backend with retry enabled
RetriedRecords ==
    {i \in 1..Len(metrics) :
        retry_cfg.enabled /\ ~NonRelational /\ metrics[i].hist[1] = 0}

\* C4: with retry enabled on a relational backend, after a first result of
\* zero duration the adapter is re-invoked one attempt at a time, at most
\* retries times; the first retry with a non-zero duration is the last
\* invocation, its duration is the record's duration and its fields replace
\* those of the first result; retrying stops early for no other reason.
\* Durations 0, 0, 1.2 with retries = 3 give 1.2 after 3 invocations, and
\* 0, 1.5 give 1.5 after 2.
C4RetryFirstNonZeroWins ==
    \A i \in RetriedRecords :
        LET h == metrics[i].hist
            n == Len(h)
        IN  /\ n <= 1 + retry_cfg.retries
            /\ \A j \in 1..(n - 1) : h[j] = 0
            /\ IF n > 1 /\ h[n] # 0
               THEN /\ metrics[i].duration = h[n]
                    /\ metrics[i].end_time = metrics[i].start_time + h[n]
               ELSE /\ n = 1 + retry_cfg.retries
                    /\ metrics[i].duration = 0
                    /\ metrics[i].end_time = metrics[i].start_time
            /\ (retry_cfg.retries = 3 /\ n = 3 /\ h[3] = 12) => metrics[i].duration = 12
            /\ (n = 2 /\ h[2] = 15) => metrics[i].duration = 15

\* the adapter returned 0, 0 and 1.2 s with retries = 3: three invocations and
\* a record of 1.2 s
C4Witness ==
    \E i \in RetriedRecords :
        /\ retry_cfg.retries = 3
        /\ metrics[i].hist = <<0, 0, 12>>
        /\ metrics[i].duration = 12

\* C5: with retry enabled and skip_nonrelational set, an item of a
\* non-relational backend is executed exactly once whatever the outcome: no
\* retry attempt is made, and a failure is a failed result of the record,
\* not an exception of the worker.
C5SkipNonRelational ==
    (retry_cfg.enabled /\ retry_cfg.skip_nonrelational /\ NonRelational) =>
        /\ \A w \in Workers : pc[w] \notin {"retry", "dead"} /\ Len(hist[w]) <= 1
        /\ \A i \in 1..Len(metrics) :
             /\ Len(metrics[i].hist) = 1
             /\ metrics[i].hist[1] = NoNum =>
                  (metrics[i].success = "False" /\ metrics[i].error # "")

\* a document-store item whose one execution took zero time is recorded as
\* it is although three retries were configured
C5Witness ==
    /\ retry_cfg.enabled /\ retry_cfg.skip_nonrelational /\ NonRelational
    /\ retry_cfg.retries = 3
    /\ \E i \in 1..Len(metrics) :
         metrics[i].hist = <<0>> /\ metrics[i].duration = 0

\* C6: the return code of a record is 0 for success, 9 for a failure whose
\* error text is "killed" in any letter case, 1 for any other failure with an
\* error text, and 0 otherwise.
C6ReturnCodes ==
    \A i \in 1..Len(metrics) :
        metrics[i].return_code =
            IF metrics[i].success = "True" THEN 0
            ELSE IF Lower(metrics[i].error) = "killed" THEN 9
            ELSE IF metrics[i].error # "" THEN 1
            ELSE 0

\* whether the ratios of the profile yield zero workers for every category
ZeroWorkers ==
    LET read_threads == (total_threads * thread_ratios.read) \div RatioDen
        write_threads == total_threads - read_threads
        rc == thread_ratios.read_complexity
        wo == thread_ratios.write_operations
        wc == thread_ratios.write_complexity
    IN  /\ \A i \in 1..Len(rc) : (read_threads * rc[i][2]) \div RatioDen = 0
        /\ \A i \in 1..Len(wo) : \A j \in 1..Len(wc) :
             (write_threads * wo[i][2] * wc[j][2]) \div (RatioDen * RatioDen) = 0

\* C7: when the ratio maps are all empty or yield zero workers for every
\* category, the planner returns exactly worker_count assignments, each
\* {read, simple}; in every other case it returns the computed list, however
\* short, and no fallback assignment.
C7PlannerFallback ==
    pc[Main] # "plan" =>
        IF ZeroWorkers
        THEN /\ Len(thread_assignments) = total_threads
             /\ \A i \in 1..Len(thread_assignments) :
                  thread_assignments[i] = [type |-> "read", complexity |-> "simple"]
        ELSE /\ thread_assignments # <<>>
             /\ thread_assignments = ComputedAssignments(total_threads, thread_ratios)

\* three non-empty ratio maps whose floors are all zero: the planner fell back
C7Witness ==
    /\ pc[Main] # "plan"
    /\ total_threads > 0
    /\ thread_ratios.read_complexity # <<>>
    /\ thread_ratios.write_operations # <<>>
    /\ thread_ratios.write_complexity # <<>>
    /\ \E i \in 1..Len(thread_ratios.write_operations) :
         thread_ratios.write_operations[i][2] > 0
    /\ ZeroWorkers
    /\ Len(thread_assignments) = total_threads

\* C8: when the threads are about to start no queue is empty, and the queue
\* of a category without provider items holds the synthesized default item
\* of the category's operation and of the backend's format, exactly one of
\* them after the single fill of exactly-once mode.
C8DefaultItem ==
    (pc[Main] = "launch" /\ launched = 0) =>
        \A k \in DOMAIN queue_map :
            /\ queue_map[k] # <<>>
            /\ Get(query_files, k, 0) = 0 =>
                 /\ OnceMode => Len(queue_map[k]) = 1
                 /\ \A i \in 1..Len(queue_map[k]) :
                      /\ queue_map[k][i].operation = KeyOperation(k)
                      /\ queue_map[k][i].file_name =
                           IF NonRelational THEN "default.json" ELSE "default.sql"

\* C9: every record of a run carries the job id drawn at profile start.
C9SameJobId ==
    \A i \in 1..Len(metrics) :
        /\ metrics[i].job_id = job_id
        /\ metrics[i].query_id.job_id = job_id

\* two workers have each emitted a record, with different test-case ids, one
\* of which differs from the job id
C9Witness ==
    \E i \in 1..Len(metrics), j \in 1..Len(metrics) :
        /\ metrics[i].thread # metrics[j].thread
        /\ metrics[i].test_case_id # metrics[j].test_case_id
        /\ metrics[i].job_id = metrics[j].job_id

\* C10 as stated: no two records share a test-case id (for a random source
\* that can return more than one token).
C10PairwiseDistinct ==
    Cardinality(env.tokens) > 1 =>
        \A i \in 1..Len(metrics), j \in 1..Len(metrics) :
            i # j => metrics[i].test_case_id # metrics[j].test_case_id

\* C10 amended: every record carries the token of a draw of its own, one draw
\* per result of a work item, and no draw serves two records; two records
\* share an id only when two draws returned the same token.
C10FreshDraw ==
    /\ \A i \in 1..Len(metrics) :
         /\ metrics[i].draw \in 1..Len(draws)
         /\ metrics[i].test_case_id = draws[metrics[i].draw]
         /\ \A j \in 1..Len(metrics) : i # j => metrics[i].draw # metrics[j].draw
    /\ Len(draws) = Len(metrics) + Cardinality({w \in Workers : pc[w] \in {"retry", "emit"}})

\* two records of one worker with the same id from two different draws of a
\* random source of several tokens
C10Witness ==
    /\ Cardinality(env.tokens) > 1
    /\ \E i \in 1..Len(metrics), j \in 1..Len(metrics) :
         /\ i # j
         /\ metrics[i].thread = metrics[j].thread
         /\ metrics[i].test_case_id = metrics[j].test_case_id
         /\ metrics[i].draw # metrics[j].draw

\* a work item the document-store dispatch cannot run: no collection, no
\* action, or an action outside the ones it knows
Malformed(item) ==
    \/ Get(item, "collection", "") = ""
    \/ Get(item, "action", "") \notin MongoActions

\* C11: the execution step never raises past its boundary, whatever the
\* backend: no worker is ended by it, a result in flight always says whether
\* it succeeded, a failed record carries a non-empty error text, a
\* document-store item without collection, without action or with an unknown
\* action becomes a failed record with the text of its exception, and every
\* item a worker took has its record once the worker is back at its loop.
C11Contained ==
    /\ \A w \in Workers :
         /\ pc[w] # "dead"
         /\ pc[w] \in {"retry", "emit"} =>
              /\ Get(result[w], "success", None) \in {"True", "False"}
              /\ result[w].success = "False" => Get(result[w], "error", None) \notin {None, ""}
         /\ pc[w] \in {"loop", "done"} => Cardinality(RecordsOf(w)) = local_count[w]
    /\ \A i \in 1..Len(metrics) :
         /\ metrics[i].success = "False" =>
              metrics[i].error \notin {None, ""}
         /\ IsMongo /\ Malformed(metrics[i].item) =>
              /\ metrics[i].success = "False"
              /\ metrics[i].error \in {"MongoDB query requires 'collection' and 'action'",
                                       "Unsupported MongoDB action"}

C11Witness ==
    \E i \in 1..Len(metrics) :
        /\ IsMongo
        /\ Get(metrics[i].item, "action", "") = "aggregate"
        /\ metrics[i].success = "False"
        /\ metrics[i].error = "Unsupported MongoDB action"
        /\ pc[metrics[i].thread] = "done"

\* the items the initial fill of per_query_once puts on the queue of a key
QueuedOnce(k) ==
    LET items == GetQueriesForQueue(k)
    IN  SubSeq(items, 1, IF Len(items) < max_queue_size THEN Len(items)
                         ELSE max_queue_size)

\* every record so far is a failure with its error text; a finished
\* per_thread worker has queries_per_connection records; after the join of a
\* per_query_once run every queued item has exactly one record
C12Records ==
    /\ \A i \in 1..Len(metrics) :
         metrics[i].success = "False" /\ metrics[i].error \notin {None, ""}
    /\ \A w \in Workers :
         /\ pc[w] # "dead"
         /\ PerThreadMode /\ pc[w] = "done" =>
              Cardinality(RecordsOf(w)) = QueriesPerConnection
    /\ OnceMode /\ pc[Main] \in {"report", "closed"} =>
         \A k \in DOMAIN queue_map :
            /\ Cardinality(RecordsOfKey(k)) = Len(QueuedOnce(k))
            /\ \A j \in 1..Len(QueuedOnce(k)) :
                 Cardinality({i \in RecordsOfKey(k) :
                     metrics[i].file_name = QueuedOnce(k)[j].file_name}) = 1

\* C12: when every backend call fails the engine still completes: each
\* per_thread worker emits exactly queries_per_connection records, a
\* per_query_once run one record per queued item, all of them failures with
\* their error text, and the profile reaches the join, the report and the end.
C12CompletesWhenDown ==
    /\ []C12Records
    /\ <>(pc[Main] = "closed")

C12Witness ==
    /\ BackendDown
    /\ PerThreadMode /\ QueriesPerConnection = 2 /\ Len(thread_assignments) = 2
    /\ pc[Main] = "closed"
    /\ Len(metrics) = 4
    /\ \A i \in 1..Len(metrics) : metrics[i].success = "False"

\* the records whose retry attempts all returned a zero duration or none
ExhaustedRecords ==
    {i \in 1..Len(metrics) :
        /\ Len(metrics[i].hist) > 1
        /\ \A j \in 2..Len(metrics[i].hist) : metrics[i].hist[j] \in {0, NoNum}}

\* a retry attempt of worker w that returned a zero duration or none
FruitlessAttempt(w) ==
    /\ pc[w] = "retry"
    /\ Len(hist'[w]) = Len(hist[w]) + 1
    /\ hist'[w][Len(hist'[w])] \in {0, NoNum}

\* C13: when every retry attempt returns a zero or absent duration the
\* metric is built from the original result: a fruitless attempt leaves the
\* held result and its duration as they were and does not end the worker,
\* and the record of an item whose attempts were all fruitless comes after
\* exactly retries attempts, with duration zero, from a worker that goes on.
C13RetryExhausted ==
    /\ [][\A w \in Workers :
            FruitlessAttempt(w) =>
              /\ result'[w] = result[w]
              /\ total_duration'[w] = total_duration[w]
              /\ pc'[w] \in {"retry", "emit"}]_vars
    /\ [](\A i \in ExhaustedRecords :
            /\ Len(metrics[i].hist) = 1 + retry_cfg.retries
            /\ metrics[i].hist[1] \in {0, NoNum}
            /\ metrics[i].duration = 0 /\ metrics[i].total_duration = 0
            /\ pc[metrics[i].thread] # "dead")

C13Witness ==
    \E i \in ExhaustedRecords :
        /\ retry_cfg.retries = 2
        /\ metrics[i].hist = <<0, 0, 0>>
        /\ metrics[i].duration = 0
        /\ metrics[i].success = "True"
        /\ pc[metrics[i].thread] = "done"

\* C14: outside per_query_once, a worker whose pop timed out on its empty
\* queue starts replenish_queues at the first category, with no record
\* emitted and no counter changed; it walks the categories in order, leaves
\* one only when that queue holds max_queue_size items, and after the last
\* one goes back to the head of its loop: the timeout neither ends the
\* worker nor counts as an operation.
C14TimeoutReplenishes ==
    [][\A w \in Workers :
         /\ pc[w] = "loop" /\ pc'[w] = "rep_full" =>
              /\ ~OnceMode
              /\ queue_map[KeyOfWorker(w)] = <<>>
              /\ rep'[w].k = 1
              /\ metrics' = metrics
              /\ local_count'[w] = local_count[w]
              /\ run_counter'[w] = run_counter[w]
         /\ pc[w] \in {"rep_full", "rep_put"} =>
              /\ pc'[w] \in {"rep_full", "rep_put", "loop"}
              /\ pc'[w] = "loop" => rep[w].k = Len(queue_keys) + 1
              /\ pc'[w] # "loop" =>
                   /\ rep'[w].k \in {rep[w].k, rep[w].k + 1}
                   /\ rep'[w].k = rep[w].k + 1 =>
                        Len(queue_map[queue_keys[rep[w].k]]) = max_queue_size]_vars

C14Witness ==
    \E w \in Workers :
        /\ pc[w] = "rep_put"
        /\ queue_keys[rep[w].k] # KeyOfWorker(w)
        /\ queue_map[queue_keys[rep[w].k]] = <<>>
        /\ local_count[w] >= 1

\* the configuration that selects per_query_once (main.py 620)
ExactlyOnceConfigured ==
    /\ test_config.execution_time = 0
    /\ SingleRunFlag
    /\ test_config.single_run_mode = "per_query_once"

\* C15: in per_query_once mode nothing is pushed after the initial fill: the
\* fill is over before the first worker starts, from then on no queue grows
\* and an empty queue stays empty, and a worker at its loop head stops
\* exactly when it finds its queue empty, whatever the elapsed time and its
\* count, and otherwise takes the head item.
C15NoRefill ==
    /\ [](ExactlyOnceConfigured /\ launched >= 1 =>
            /\ pc[Main] \notin {"plan", "fill_once", "rep_full", "rep_put"}
            /\ \A w \in Workers : pc[w] \notin {"rep_full", "rep_put"})
    /\ [][ExactlyOnceConfigured /\ pc[Main] \notin {"plan", "fill_once"} =>
            /\ \A k \in DOMAIN queue_map :
                 /\ Len(queue_map'[k]) <= Len(queue_map[k])
                 /\ queue_map[k] = <<>> => queue_map'[k] = <<>>
            /\ \A w \in Workers :
                 pc[w] = "loop" /\ pc'[w] # "loop" =>
                   IF queue_map[KeyOfWorker(w)] = <<>>
                   THEN pc'[w] = "done" /\ metrics' = metrics
                   ELSE /\ pc'[w] = "exec"
                        /\ query'[w] = Head(queue_map[KeyOfWorker(w)])
                        /\ queue_map'[KeyOfWorker(w)] = Tail(queue_map[KeyOfWorker(w)])]_vars

C15Witness ==
    /\ ExactlyOnceConfigured
    /\ Len(thread_assignments) = 2
    /\ \E w \in Workers :
         /\ pc[w] = "done"
         /\ local_count[w] = 0
         /\ queue_map[KeyOfWorker(w)] = <<>>
         /\ Cardinality(RecordsOfKey(KeyOfWorker(w))) >= 1

\* the configuration of a duration-bound run (main.py 620, 632, 637-639)
DurationBound == ~OnceMode /\ ~PerThreadMode

\* C16: in a duration-bound run a worker takes an item only when, at the
\* check at its loop head, its elapsed time is below execution_time, and it
\* returns only when it is not; an operation that has started is never
\* cancelled: it goes through its attempts to its metric, which is recorded
\* by its worker even when the deadline passed while it ran.
C16DeadlineBetweenIterations ==
    [][DurationBound =>
        \A w \in Workers :
          /\ pc[w] = "loop" /\ pc'[w] = "exec" => elapsed[w] < Duration
          /\ pc[w] = "loop" /\ pc'[w] = "done" => elapsed[w] >= Duration
          /\ pc[w] = "exec" => pc'[w] \in {"exec", "retry", "emit"}
          /\ pc[w] = "retry" => pc'[w] \in {"retry", "emit"}
          /\ pc[w] = "emit" /\ pc'[w] # "emit" =>
               /\ pc'[w] = "loop"
               /\ Len(metrics') = Len(metrics) + 1
               /\ metrics'[Len(metrics')].thread = w
               /\ metrics'[Len(metrics')].item = query[w]
               /\ local_count'[w] = local_count[w] + 1]_vars

C16Witness ==
    /\ DurationBound /\ Duration >= 1
    /\ \E i \in 1..Len(metrics) :
         /\ metrics[i].at >= Duration
         /\ pc[metrics[i].thread] = "done"

\* the sum of the ratios of a map, in quarters
RECURSIVE SumRatios(_)
SumRatios(m) == IF m = <<>> THEN 0 ELSE Head(m)[2] + SumRatios(Tail(m))

\* how many workers the plan gives to one category
Planned(thread_info) ==
    Cardinality({i \in 1..Len(thread_assignments) : thread_assignments[i] = thread_info})

\* C17: the planner gives floor(total * read_ratio) workers to reads and the
\* rest to writes, floor(read_workers * ratio) to each read complexity and
\* floor(write_workers * op_ratio * cx_ratio) to each write pair, with no
\* redistribution of what flooring leaves over (the plan is replaced only
\* when it is empty); with read_ratio within [0, 1] and every map summing
\* to at most 1 the plan never has more workers than worker_count.
C17PlannerFloors ==
    pc[Main] # "plan" =>
      LET read_workers == (total_threads * thread_ratios.read) \div RatioDen
          write_workers == total_threads - read_workers
          rc == thread_ratios.read_complexity
          wo == thread_ratios.write_operations
          wc == thread_ratios.write_complexity
      IN  /\ ~ZeroWorkers =>
               /\ \A i \in 1..Len(rc) :
                    Planned([type |-> "read", complexity |-> rc[i][1]])
                      = (read_workers * rc[i][2]) \div RatioDen
               /\ \A i \in 1..Len(wo), j \in 1..Len(wc) :
                    Planned([type |-> "write", operation |-> wo[i][1],
                             complexity |-> wc[j][1]])
                      = (write_workers * wo[i][2] * wc[j][2]) \div (RatioDen * RatioDen)
               /\ \A n \in 1..Len(thread_assignments) :
                    \/ \E i \in 1..Len(rc) :
                         thread_assignments[n] = [type |-> "read", complexity |-> rc[i][1]]
                    \/ \E i \in 1..Len(wo), j \in 1..Len(wc) :
                         thread_assignments[n] = [type |-> "write", operation |-> wo[i][1],
                                                  complexity |-> wc[j][1]]
          /\ (/\ thread_ratios.read <= RatioDen
              /\ SumRatios(rc) <= RatioDen
              /\ SumRatios(wo) <= RatioDen
              /\ SumRatios(wc) <= RatioDen) =>
               Len(thread_assignments) <= total_threads

C17Witness ==
    /\ pc[Main] # "plan"
    /\ total_threads = 2
    /\ SumRatios(thread_ratios.read_complexity) <= RatioDen
    /\ SumRatios(thread_ratios.write_operations) = 2
    /\ SumRatios(thread_ratios.write_complexity) <= RatioDen
    /\ Planned([type |-> "read", complexity |-> "simple"]) = 1
    /\ Len(thread_assignments) = 1

\* C18: every worker thread is started before the first join: while the
\* main thread joins, reports or has closed, all threads of the plan have
\* been started; the report, the exports and the close of the handler come
\* only after every worker has terminated, and from the report on no metric
\* is recorded.
C18JoinBeforeReport ==
    /\ [](pc[Main] \in {"join", "report", "closed"} =>
            /\ launched = Len(thread_assignments)
            /\ \A w \in Workers : pc[w] # "idle")
    /\ [](pc[Main] \in {"report", "closed"} =>
            \A w \in Workers : pc[w] \in {"done", "dead"})
    /\ [][pc[Main] \in {"report", "closed"} => metrics' = metrics]_vars

C18Witness ==
    /\ pc[Main] = "closed"
    /\ Len(thread_assignments) = 2
    /\ \A w \in Workers : pc[w] = "done" /\ Cardinality(RecordsOf(w)) >= 1

\* the state a worker thread keeps for itself
OwnState(w) ==
    <<pc[w], local_count[w], run_counter[w], elapsed[w], query[w], result[w],
      total_duration[w], attempt[w], test_case_id[w], rep[w]>>

\* the condition on which a worker returns by itself
TerminatedByItself(w) ==
    /\ pc[w] = "done"
    /\ OnceMode => queue_map[KeyOfWorker(w)] = <<>>
    /\ PerThreadMode => run_counter[w] = QueriesPerConnection
                        /\ Cardinality(RecordsOf(w)) = QueriesPerConnection
    /\ DurationBound => elapsed[w] >= Duration

\* C19: an exception that escapes one worker while it builds or records a
\* metric ends that worker alone: the step leaves every sibling, the queues
\* and the main thread as they were; the siblings run on to their own
\* termination, and the profile joins all threads, dead or done, and
\* completes.
C19WorkerIsolation ==
    /\ [][\A w \in Workers :
            pc[w] # "dead" /\ pc'[w] = "dead" =>
              /\ \A v \in Workers \ {w} : OwnState(v)' = OwnState(v)
              /\ pc'[Main] = pc[Main]
              /\ queue_map' = queue_map]_vars
    /\ [](pc[Main] \in {"report", "closed"} =>
            \A w \in Workers : pc[w] = "dead" \/ TerminatedByItself(w))
    /\ <>(pc[Main] = "closed")

C19Witness ==
    /\ pc[Main] = "closed"
    /\ PerThreadMode /\ QueriesPerConnection = 2
    /\ \E w \in Workers, v \in Workers :
         /\ pc[w] = "dead" /\ Cardinality(RecordsOf(w)) < QueriesPerConnection
         /\ pc[v] = "done" /\ Cardinality(RecordsOf(v)) = QueriesPerConnection

\* C20: a profile whose backend type has no registered handler is aborted
\* before any queue is created or filled and before any worker is started,
\* records no metric and returns without raising; its abort leaves the
\* other profiles of the run alone, and they, like a profile with a
\* handler, still run to their end.
C20NoHandlerAborts ==
    /\ [](db_type \notin Registry =>
            /\ pc[Main] \in {"plan", "aborted"}
            /\ DOMAIN pc = {Main}
            /\ thread_assignments = <<>> /\ DOMAIN queue_map = {}
            /\ launched = 0 /\ metrics = <<>>)
    /\ [][pc[Main] # pc'[Main] => futures' = futures]_vars
    /\ <>(/\ pc[Main] \in {"aborted", "closed"}
          /\ \A i \in DOMAIN futures : futures[i] = "returned")

C20Witness ==
    /\ db_type = "redis"
    /\ pc[Main] = "aborted"
    /\ DOMAIN futures # {}
    /\ \A i \in DOMAIN futures : futures[i] = "returned"

\* the fields of the canonical metric shape (main.py 588-610)
CanonicalFields ==
    {"operation", "complexity", "file_name", "start_time", "end_time",
     "duration", "success", "error", "error_code", "rows_affected",
     "rows_processed", "memory_usage", "cpu_time", "return_code", "job_id",
     "test_case_id"}

\* C21: every emitted metric, whatever the backend family and whether the
\* result succeeded or failed, carries every canonical field, and none of
\* them is null: a field the backend result did not supply holds a zero or
\* empty default.
C21CanonicalFields ==
    \A i \in 1..Len(metrics) :
        LET m == metrics[i] IN
        /\ CanonicalFields \subseteq DOMAIN m
        /\ m.start_time # NoNum /\ m.end_time # NoNum
        /\ m.duration # NoNum
        /\ m.success \in {"True", "False"}
        /\ m.error # None /\ m.error_code # None
        /\ m.rows_affected # NoNum /\ m.rows_processed # NoNum
        /\ m.memory_usage # NoNum /\ m.cpu_time # NoNum
        /\ m.return_code # NoNum
        /\ m.job_id # 0

\* C25: in per_thread mode execute_batch executes every entry of the batch,
\* identical texts of different threads included, and returns exactly one
\* result per entry, in the order of the input.
C25PerThreadBatch ==
    batch.pc = "returned" /\ test_config.single_run_mode = "per_thread" =>
        /\ batch.call_count = Len(env.queries)
        /\ Len(batch.results) = Len(env.queries)
        /\ \A i \in 1..Len(env.queries) : batch.results[i].entry = i

C25Witness ==
    /\ batch.pc = "returned" /\ test_config.single_run_mode = "per_thread"
    /\ Len(env.queries) = 2
    /\ env.queries[1].query = env.queries[2].query
    /\ batch.order = <<2, 1>>
    /\ batch.call_count = 2
    /\ batch.results[1].entry = 1 /\ batch.results[2].entry = 2

\* the first call of the backend script that returns, 0 when none does
FirstReturn ==
    LET ok == {k \in 1..Len(env.side_effect) : "duration" \in DOMAIN env.side_effect[k]}
    IN  IF ok = {} THEN 0 ELSE CHOOSE k \in ok : \A j \in ok : k <= j

\* C22: with retry enabled and retries = n, execute_batch runs a query
\* whose execution raises again until an attempt succeeds, calling the
\* backend once per attempt (three calls when attempts 1 and 2 raise and
\* attempt 3 returns), and returns the result and the duration of the
\* attempt that succeeded.
C22RetryUntilSuccess ==
    /\ batch.pc = "returned" /\ retry_cfg.enabled
    /\ Len(env.queries) = 1
    /\ FirstReturn \in 1..retry_cfg.retries
    => /\ batch.call_count = FirstReturn
       /\ batch.results[1].success = "True"
       /\ batch.results[1].total_duration = env.side_effect[FirstReturn].duration

\* C23: with retry enabled and retries = n, a query whose every attempt
\* raises is executed exactly n times, and execute_batch then returns a
\* result that holds an error instead of raising.
C23RetryExhaustion ==
    /\ batch.pc = "returned" /\ retry_cfg.enabled
    /\ Len(env.queries) = 1
    /\ FirstReturn \notin 1..retry_cfg.retries
    => /\ batch.call_count = retry_cfg.retries
       /\ Len(batch.results) = 1
       /\ batch.results[1].error # None

\* C24: in per_query_once mode execute_batch executes each distinct text
\* once, however often it occurs in the batch, and still returns one
\* result per entry, the entries of one text sharing one result.
C24PerQueryOnceBatch ==
    batch.pc = "returned" /\ test_config.single_run_mode = "per_query_once" =>
        /\ batch.call_count =
             Cardinality({env.queries[i].query : i \in 1..Len(env.queries)})
        /\ Len(batch.results) = Len(env.queries)
        /\ \A i, j \in 1..Len(env.queries) :
             env.queries[i].query = env.queries[j].query =>
               batch.results[i].call = batch.results[j].call

\* C26: the composite id of every metric is made of the job id, the
\* test-case id, the thread label, the local iteration counter of the
\* worker and the sub-index, which is 0 for the single result of an item;
\* the thread label is the test-kind label, soak for a duration-bound run
\* and load for a single-pass run, followed by the category without its
\* read/write prefix.
C26CompositeId ==
    \A i \in 1..Len(metrics) :
        LET m == metrics[i]
            key == KeyOfWorker(m.thread)
        IN  /\ m.query_id.job_id = job_id
            /\ m.query_id.test_case_id = m.test_case_id
            /\ m.query_id.thread_name = m.thread_name
            /\ m.query_id.sub_index = 0
            /\ Tail(m.thread_name) = Tail(key)
            /\ Duration > 0 => Head(m.thread_name) = "soaktest"
            /\ OnceMode \/ PerThreadMode => Head(m.thread_name) = "loadtest"

\* C27: within one worker the local iteration counter carried by its
\* metrics starts at 0 and grows by exactly 1 per processed item, in every
\* mode, so the metrics of the worker are totally ordered by it; a pop
\* timeout or a replenish does not advance it.
C27LocalCounter ==
    /\ [](\A w \in Workers : \A i \in RecordsOf(w) :
            metrics[i].query_id.local_count =
              Cardinality({j \in RecordsOf(w) : j < i}))
    /\ [](\A w \in Workers : \A i, j \in RecordsOf(w) :
            i < j => metrics[i].query_id.local_count < metrics[j].query_id.local_count)
    /\ [][\A w \in Workers :
            w \in DOMAIN local_count /\ pc[w] \notin {"start", "emit"} =>
              local_count'[w] = local_count[w]]_vars
    /\ [][\A w \in Workers :
            pc[w] = "emit" /\ pc'[w] = "loop" =>
              local_count'[w] = local_count[w] + 1]_vars

\* a worker on a queue of capacity 1 that ran three iterations: every item
\* after the first was popped after a timeout and a replenish
C27Witness ==
    /\ PerThreadMode /\ total_threads = 1 /\ max_queue_size = 1
    /\ \E w \in Workers :
         /\ pc[w] = "done"
         /\ Cardinality(RecordsOf(w)) >= 3
         /\ \E i, j, k \in RecordsOf(w) :
              /\ i < j /\ j < k
              /\ metrics[i].query_id.local_count = 0
              /\ metrics[j].query_id.local_count = 1
              /\ metrics[k].query_id.local_count = 2

\* C28: in the continuous and the fixed-run-count modes the initial fill
\* terminates and leaves every category queue with exactly max_queue_size
\* items, for every capacity and every category key the planner produces.
C28InitialFill ==
    /\ [](pc[Main] = "launch" =>
            \A k \in DOMAIN queue_map : Len(queue_map[k]) = max_queue_size)
    /\ <>(pc[Main] = "launch")

\* C29: a failure of the metric-emission step of one iteration is confined
\* to that iteration: it does not end the worker, which goes on to its next
\* iteration, so that in fixed-run-count mode every worker still completes
\* queries_per_connection iterations.
C29EmissionConfined ==
    /\ [][\A w \in Workers : pc[w] = "emit" => pc'[w] \in {"emit", "loop"}]_vars
    /\ [](PerThreadMode /\ pc[Main] \in {"report", "closed"} =>
            \A w \in Workers : local_count[w] = QueriesPerConnection)

\* C30: for every work item the adapter is invoked at most 1 + retries
\* times, and exactly once when retry is disabled or when the first result
\* has a non-zero duration, a failed result with a non-zero duration
\* included: the retry decision reads the duration, never the success flag.
C30InvocationBound ==
    /\ \A w \in Workers :
         w \in DOMAIN hist => Len(hist[w]) <= 1 + retry_cfg.retries
    /\ \A i \in 1..Len(metrics) :
         LET h == metrics[i].hist IN
         /\ Len(h) >= 1 /\ Len(h) <= 1 + retry_cfg.retries
         /\ ~retry_cfg.enabled \/ TruthyNum(h[1]) => Len(h) = 1

C30Witness ==
    /\ retry_cfg.enabled /\ retry_cfg.retries >= 2 /\ ~NonRelational
    /\ \E i \in 1..Len(metrics) :
         /\ metrics[i].success = "False"
         /\ TruthyNum(metrics[i].hist[1])
         /\ Len(metrics[i].hist) = 1

\* a retry attempt of worker w whose call of the executor raised
RaisedAttempt(w) ==
    /\ pc[w] = "retry"
    /\ Len(hist'[w]) = Len(hist[w]) + 1
    /\ hist'[w][Len(hist'[w])] = NoNum

\* C31: an exception raised during one retry attempt is swallowed: it does
\* not reach the worker loop, the attempts that remain up to the configured
\* count are still made, and a later attempt with a non-zero duration still
\* wins.
C31RetryRaiseSwallowed ==
    /\ [][\A w \in Workers :
            RaisedAttempt(w) =>
              /\ result'[w] = result[w]
              /\ total_duration'[w] = total_duration[w]
              /\ pc'[w] = IF attempt[w] + 1 < retry_cfg.retries THEN "retry" ELSE "emit"]_vars
    /\ [](\A i \in 1..Len(metrics) :
            LET h == metrics[i].hist
                wins == {k \in 2..Len(h) : TruthyNum(h[k])}
            IN  Len(h) > 1 =>
                  IF wins = {} THEN Len(h) = 1 + retry_cfg.retries
                  ELSE wins = {Len(h)} /\ metrics[i].duration = h[Len(h)])

C31Witness ==
    /\ ~NonRelational /\ retry_cfg.retries = 3
    /\ \E i \in 1..Len(metrics) :
         /\ metrics[i].hist = <<0, NoNum, 12>>
         /\ metrics[i].duration = 12
         /\ pc[metrics[i].thread] = "done"

\* C32: retry attempts run inside the iteration of the worker, one after the
\* other: each step of a worker makes at most one call of the adapter, the
\* calls for an item are made only while the worker holds that item, and a
\* worker pops its next item only when the retries of the current one are
\* over and its metric is emitted.
C32RetrySynchronous ==
    /\ [][\A w \in Workers :
            w \in DOMAIN hist /\ hist'[w] # hist[w] /\ hist'[w] # <<>> =>
              /\ pc[w] \in {"exec", "retry"}
              /\ query[w] # NoQuery
              /\ Len(hist'[w]) = Len(hist[w]) + 1]_vars
    /\ [][\A w \in Workers :
            pc[w] = "loop" /\ pc'[w] = "exec" =>
              /\ hist[w] = <<>> /\ result[w] = NoResult /\ attempt[w] = 0
              /\ Cardinality(RecordsOf(w)) = local_count[w]]_vars
    /\ [][\A w \in Workers :
            pc[w] \in {"exec", "retry", "emit"} /\ pc'[w] # "dead" =>
              \/ query'[w] = query[w]
              \/ pc[w] = "exec" /\ query'[w] = PrepareQuery(query[w], thread_assignments[w])
              \/ pc[w] = "emit" /\ query'[w] = NoQuery]_vars

C32Witness ==
    \E i, j \in 1..Len(metrics) :
        /\ i < j /\ metrics[i].thread = metrics[j].thread
        /\ Len(metrics[i].hist) = 2
        /\ pc[metrics[i].thread] = "done"

\* the three fields prepare_query may fill
Backfilled == {"operation", "complexity", "file_name"}

Missing(item, k) == Get(item, k, "") = ""

\* C33 as stated, in its part on the origin of the values: a field that was
\* absent or empty is filled from the assignment of the worker, the source
\* label included.
C33FilledFromAssignment ==
    query # << >> =>
        \A k \in Backfilled :
            Missing(env.item, k) =>
                query[1][k] \in {"select"} \cup {env.thread_info[x] : x \in DOMAIN env.thread_info}

\* C33: before execution the operation and the complexity of an item are
\* filled from the assignment of the worker (operation select for a read
\* assignment, the empty text where the assignment has none), and its source
\* label with the placeholder unknown.sql, only when absent or empty; a value
\* the provider supplied is never overwritten and no other field of the item
\* is changed.
C33Backfill ==
    query # << >> =>
        LET q == query[1]
            ti == env.thread_info
        IN  /\ DOMAIN q = DOMAIN env.item \cup Backfilled
            /\ \A k \in DOMAIN env.item :
                 k \notin Backfilled \/ ~Missing(env.item, k) => q[k] = env.item[k]
            /\ Missing(env.item, "operation") =>
                 q.operation = IF ti.type = "read" THEN "select"
                               ELSE Get(ti, "operation", "")
            /\ Missing(env.item, "complexity") => q.complexity = ti.complexity
            /\ Missing(env.item, "file_name") => q.file_name = "unknown.sql"

C33Witness ==
    /\ query # << >>
    /\ "operation" \notin DOMAIN env.item
    /\ Get(env.item, "complexity", "") = "complex"
    /\ Get(env.item, "file_name", "absent") = ""
    /\ env.thread_info = [type |-> "write", operation |-> "update", complexity |-> "medium"]
    /\ query[1] = [query |-> "sql1", operation |-> "update", complexity |-> "complex",
                   file_name |-> "unknown.sql"]

\* C34: the metric collection only grows, one record per emission of a
\* worker, and a record is never changed or removed once appended; after all
\* workers have joined it holds exactly one record per metric any worker
\* emitted: concurrent emissions lose, duplicate or overwrite nothing.
C34AppendOnly ==
    /\ [][/\ Len(metrics') \in {Len(metrics), Len(metrics) + 1}
          /\ \A i \in 1..Len(metrics) : metrics'[i] = metrics[i]
          /\ Len(metrics') = Len(metrics) + 1 =>
               \E w \in Workers : pc[w] = "emit" /\ metrics'[Len(metrics')] = Recorded(w)]_vars
    /\ [](pc[Main] \in {"report", "closed"} =>
            /\ \A w \in Workers : Cardinality(RecordsOf(w)) = local_count[w]
            /\ \A i, j \in 1..Len(metrics) :
                 /\ metrics[i].thread = metrics[j].thread
                 /\ metrics[i].query_id.local_count = metrics[j].query_id.local_count
                 => i = j)

C34Witness ==
    /\ pc[Main] = "closed"
    /\ Len(metrics) = 4
    /\ \E i, j, k \in 1..Len(metrics) :
         /\ i < j /\ j < k
         /\ metrics[i].thread = metrics[k].thread
         /\ metrics[i].thread # metrics[j].thread
    /\ \A w \in Workers : Cardinality(RecordsOf(w)) = 2

\* C35: with a provider that has an item for every category, a capacity of
\* at least 1 and adapter calls that return, every worker terminates in each
\* of the three modes, a worker inside replenish_queues while its sibling
\* drains the queues included, and the join of the profile completes.
C35WorkersTerminate ==
    /\ <>[](/\ pc[Main] = "closed"
            /\ Workers # {}
            /\ \A w \in Workers : pc[w] = "done")
    /\ [](\A w \in Workers : pc[w] # "dead")

C35Witness ==
    /\ pc[Main] = "closed"
    /\ PerThreadMode /\ QueriesPerConnection = 2 /\ max_queue_size = 1
    /\ Cardinality(Workers) = 2
    /\ KeyOfWorker(1) = KeyOfWorker(2)
    /\ \A w \in Workers : pc[w] = "done" /\ Cardinality(RecordsOf(w)) = 2

\* C36: within one run the triple of thread label, local iteration counter
\* and sub-index of a metric identifies it among all metrics of the run,
\* also when several workers have the same category.
C36TripleUnique ==
    \A i, j \in 1..Len(metrics) :
        /\ metrics[i].query_id.thread_name = metrics[j].query_id.thread_name
        /\ metrics[i].query_id.local_count = metrics[j].query_id.local_count
        /\ metrics[i].query_id.sub_index = metrics[j].query_id.sub_index
        => i = j

\* execution_time = 0 with single_run_on_zero_or_missing_duration = false
FlagOffRun ==
    /\ test_config.execution_time = 0
    /\ "single_run_on_zero_or_missing_duration" \in DOMAIN test_config
    /\ ~test_config.single_run_on_zero_or_missing_duration

\* C37: with execution_time = 0 and the single-run flag switched off the run
\* is a duration-bound run of length 0: no worker pops or executes an item,
\* the queues stay as the initial fill left them, the profile emits no
\* metric, and every worker terminates.
C37ZeroLengthRun ==
    /\ [](FlagOffRun =>
            /\ metrics = <<>>
            /\ \A w \in Workers :
                 /\ pc[w] \in {"idle", "start", "loop", "done"}
                 /\ w \in DOMAIN query => query[w] = NoQuery
            /\ pc[Main] \in {"launch", "join", "report", "closed"} =>
                 \A k \in DOMAIN queue_map : Len(queue_map[k]) = max_queue_size)
    /\ <>[](FlagOffRun =>
              /\ pc[Main] = "closed"
              /\ \A w \in Workers : pc[w] = "done")

C37Witness ==
    /\ FlagOffRun
    /\ pc[Main] = "closed"
    /\ Cardinality(Workers) = 2
    /\ \A w \in Workers : pc[w] = "done" /\ local_count[w] = 0
    /\ metrics = <<>>

\* the statements found in the folder of category k
UsableFiles(k) ==
    {i \in 1..Len(env.found[k]) : ReadSqlFile(env.found[k][i].content) # <<>>}

LoadedRight ==
    /\ DOMAIN qm.queues = {LoadKey(LoadCategories[k]) : k \in 1..Len(LoadCategories)}
    /\ Cardinality(DOMAIN qm.queues) = 12
    /\ Cardinality({k \in DOMAIN qm.queues : k[1] = "read" /\ k[2] = "select"}) = 3
    /\ Cardinality({k \in DOMAIN qm.queues : k[1] = "write"}) = 9
    /\ \A k \in 1..Len(LoadCategories) :
         LET q == qm.queues[LoadKey(LoadCategories[k])] IN
         /\ Len(q) >= 1
         /\ Len(q) <= max_queue_size
         /\ IF UsableFiles(k) = {}
            THEN q = <<DefaultItem(LoadCategories[k])>>
            ELSE /\ Len(q) = Cardinality(UsableFiles(k))
                 /\ \A j \in 1..Len(q) : q[j].file_name # "default.sql"

\* C38: load_queries terminates and leaves exactly 12 queues (3 read-select,
\* 9 write), each non-empty (the category's query files or one default
\* query) and each holding at most max_queue_size items, whatever the number
\* of query files found per category.
C38LoadQueries ==
    /\ [](qm.pc = "loaded" => LoadedRight)
    /\ <>(qm.pc = "loaded")

\* the thread ids of an assignment, as <<position of the key, position in
\* its list>>, and the id at such a place
Places(a) == {p \in (1..Len(a)) \X (1..(3 * MaxConnections + 3)) : p[2] <= Len(a[p[1]][2])}
IdAt(a, p) == a[p[1]][2][p[2]]
IdsDisjoint(a) ==
    \A p1, p2 \in Places(a) : IdAt(a, p1) = IdAt(a, p2) => p1[1] = p2[1]
Connections == Get(env.config, "concurrent_connections", DefaultConnections)

\* C39: for both strategies assign_threads gives each thread id to at most
\* one operation key and assigns at most concurrent_connections thread ids
\* in total, for every concurrent_connections >= 1 and every read ratio or
\* weight map.
C39AssignBounded ==
    assigned.pc = "returned" =>
        /\ IdsDisjoint(assigned.assignments)
        /\ Cardinality(Places(assigned.assignments)) <= Connections

====
